---- MODULE Spec2Model ----
(***************************************************************************)
(* cart-wheel: the channel state store (state.py), the sync orchestrator   *)
(* (sync.py, sequential and asyncio paths) and the file-writing phase of   *)
(* the `add` verb (cli.py).                                                *)
(*                                                                         *)
(* One CLI invocation runs at a time (cmd, pc).  The durable surfaces are  *)
(* the declarations directory (declFile) and the state directory (fs: the  *)
(* `<name>.json` files and their `<name>.json.tmp` siblings).  A process   *)
(* may stop at any step (Crash).                                           *)
(***************************************************************************)
EXTENDS Integers, Sequences, FiniteSets, TLC

(***************************************************************************)
(* Bounds and the fixed universe of the model                              *)
(***************************************************************************)

\* at most this many non-dry-run attempts are made over a behaviour
MaxAttempts == 3

\* at most this many processes are stopped over a behaviour
MaxCrashes == 1

Packages == {"pa", "pb"}

\* sorted(p.stem for p in glob("*.toml")) enumerates in this order
PkgOrder == <<"pa", "pb">>

\* the wheels the index lists for each package, newest first
PyPIWheels == [p \in Packages |-> IF p = "pa" THEN <<"a2", "a1">> ELSE <<"b1">>]

\* b2 is a platform-specific wheel of pb: `add` never lists it, an operator
\* can write it into the declaration by hand
Wheels == {"a1", "a2", "b1", "b2"}

PkgOf(w) == IF w \in {"b1", "b2"} THEN "pb" ELSE "pa"

\* wheels for which PEP 658 metadata was available to `add`
HasMetadata == {"a1", "b1"}

\* raw Requires-Dist strings of each wheel
RawRequirements(w) == IF w = "b1" THEN <<>> ELSE <<"requests>=2.0">>

(***************************************************************************)
(* Values                                                                  *)
(***************************************************************************)

\* Python None for a string-valued field
Null == "None"

\* a key that is not in a JSON object (string-valued)
Absent == "absent"

\* a key that is not in a JSON object (integer-valued)
AbsentInt == -1

\* None / a list / a missing key, for list-valued fields
NoneVal == [tag |-> "none", items |-> <<>>]

Some(s) == [tag |-> "some", items |-> s]

AbsentVal == [tag |-> "absent", items |-> <<>>]

\* sync.py:618
SemLimit == 10

\* cli.py:680
FetchLimit == 50

\* sync.py:267 and state.py:305
RetryCeiling == 3

EmptyMap == [w \in {} |-> 0]

(***************************************************************************)
(* state.py: WheelState and its (de)serialisation                          *)
(***************************************************************************)

\* the dataclass defaults
WheelState(status) ==
    [status |-> status, sha256 |-> Null, upload_time |-> Null,
     converted_at |-> Null, conda_file |-> Null, subdir |-> Null,
     dependencies |-> NoneVal, original_requirements |-> NoneVal,
     error |-> Null, retry_count |-> 0]

\* truthiness of an optional string
Truthy(s) == s # Null /\ s # ""

\* dict key for an optional string: present only when truthy
StrKey(s) == IF Truthy(s) THEN s ELSE Absent

\* Dependencies.to_dict: "required" is always written
Dependencies_to_dict(d) == Some(d.items)

\* Dependencies.from_dict
Dependencies_from_dict(d) == IF d.tag = "absent" THEN NoneVal ELSE Some(d.items)

\* WheelState.to_dict: falsy fields are omitted
to_dict(ws) ==
    [status |-> ws.status,
     sha256 |-> StrKey(ws.sha256),
     upload_time |-> StrKey(ws.upload_time),
     converted_at |-> StrKey(ws.converted_at),
     conda_file |-> StrKey(ws.conda_file),
     subdir |-> StrKey(ws.subdir),
     dependencies |-> IF ws.dependencies.tag = "some"
                      THEN Dependencies_to_dict(ws.dependencies) ELSE AbsentVal,
     original_requirements |->
         IF ws.original_requirements.tag = "some"
            /\ Len(ws.original_requirements.items) > 0
         THEN ws.original_requirements ELSE AbsentVal,
     error |-> StrKey(ws.error),
     retry_count |-> IF ws.retry_count > 0 THEN ws.retry_count ELSE AbsentInt]

\* data.get(key) for a string-valued key
StrGet(v) == IF v = Absent THEN Null ELSE v

\* WheelState.from_dict
from_dict(d) ==
    [status |-> d.status,
     sha256 |-> StrGet(d.sha256),
     upload_time |-> StrGet(d.upload_time),
     converted_at |-> StrGet(d.converted_at),
     conda_file |-> StrGet(d.conda_file),
     subdir |-> StrGet(d.subdir),
     dependencies |-> Dependencies_from_dict(d.dependencies),
     original_requirements |->
         IF d.original_requirements.tag = "absent" THEN NoneVal
         ELSE d.original_requirements,
     error |-> StrGet(d.error),
     retry_count |-> IF d.retry_count = AbsentInt THEN 0 ELSE d.retry_count]

(***************************************************************************)
(* Files                                                                   *)
(***************************************************************************)

\* no such file
NoFile == [kind |-> "none", doc |-> EmptyMap]

\* a file opened for writing whose document is not (completely) written
Trunc == [kind |-> "trunc", doc |-> EmptyMap]

\* a complete JSON document: wheel filename -> record
Doc(m) == [kind |-> "doc", doc |-> m]

\* a temp file left behind by a stopped process: nothing ever reads it, the
\* next save_state of the package opens it for writing
Stale == [kind |-> "stale", doc |-> EmptyMap]

\* state_dir / f"{name}.json"
StatePath(p) == <<p, "json">>

TempPathInPlace(p) == StatePath(p)

\* state_path.with_suffix(".json.tmp")
TempPath(p) == <<p, "json.tmp">>

Paths == {StatePath(p) : p \in Packages} \cup {<<p, "json.tmp">> : p \in Packages}

\* data = {filename: ws.to_dict() for filename, ws in state.items()}
DumpData(state) == [w \in DOMAIN state |-> to_dict(state[w])]

\* load_state on a readable file (json.load raises on a truncated one)
load_state(f) ==
    IF f.kind = "doc" THEN [w \in DOMAIN f.doc |-> from_dict(f.doc[w])]
    ELSE EmptyMap

\* json.load(f) raises
LoadRaises(f) == f.kind = "trunc"

(***************************************************************************)
(* state.py: pending enumeration                                           *)
(***************************************************************************)

IsDone_NoSkipCheck(ws) ==
    \/ ws.status = "converted"
    \/ ws.status = "failed" /\ ws.retry_count >= RetryCeiling

IsDone_OffByOne(ws) ==
    \/ ws.status = "converted"
    \/ ws.status = "skipped"
    \/ ws.status = "failed" /\ ws.retry_count > RetryCeiling

\* the three `continue` tests of get_pending_wheels
IsDone(ws) ==
    \/ ws.status = "converted"
    \/ ws.status = "skipped"
    \/ ws.status = "failed" /\ ws.retry_count >= RetryCeiling

RECURSIVE PendingLoop(_, _, _)
PendingLoop(wheels, state, out) ==
    IF wheels = <<>> THEN out
    ELSE LET wheel == Head(wheels) IN
         IF wheel \in DOMAIN state /\ IsDone(state[wheel])
         THEN PendingLoop(Tail(wheels), state, out)
         ELSE PendingLoop(Tail(wheels), state, Append(out, wheel))

get_pending_wheels(config, state) == PendingLoop(config.wheels, state, <<>>)

(***************************************************************************)
(* sync.py: state updates                                                  *)
(***************************************************************************)

UpdateFailed_Ceiling2(state, filename, error) ==
    LET retry_count == IF filename \in DOMAIN state
                       THEN state[filename].retry_count + 1 ELSE 1
        ws == [WheelState(IF retry_count < 2 THEN "failed" ELSE "skipped")
                 EXCEPT !.error = error, !.retry_count = retry_count]
    IN [w \in DOMAIN state \cup {filename} |-> IF w = filename THEN ws ELSE state[w]]

UpdateFailed_Inverted(state, filename, error) ==
    LET retry_count == IF filename \in DOMAIN state
                       THEN state[filename].retry_count + 1 ELSE 1
        ws == [WheelState(IF retry_count > RetryCeiling THEN "failed" ELSE "skipped")
                 EXCEPT !.error = error, !.retry_count = retry_count]
    IN [w \in DOMAIN state \cup {filename} |-> IF w = filename THEN ws ELSE state[w]]

_update_failed_state(state, filename, error) ==
    LET retry_count == IF filename \in DOMAIN state
                       THEN state[filename].retry_count + 1 ELSE 1
        ws == [WheelState(IF retry_count < RetryCeiling THEN "failed" ELSE "skipped")
                 EXCEPT !.error = error, !.retry_count = retry_count]
    IN [w \in DOMAIN state \cup {filename} |-> IF w = filename THEN ws ELSE state[w]]

(***************************************************************************)
(* conda.py / sync.py: what a successful conversion of a wheel yields      *)
(***************************************************************************)

\* ConversionResult.dependencies: conda dependency strings, as their
\* whitespace-separated parts
ConvDependencies(w) ==
    IF w = "b1" THEN << <<"python">> >>
    ELSE << <<"python", ">=3.10">>, <<"requests", ">=2.0">> >>

\* ConversionResult.path.name
CondaName(w) == IF w = "a1" THEN "pa-1-py_0.conda"
                ELSE IF w = "a2" THEN "pa-2-py_0.conda"
                ELSE IF w = "b1" THEN "pb-1-py_0.conda" ELSE "pb-2-py_0.conda"

\* WheelMetadata.conda_subdir: noarch for a pure wheel, else by platform tag
conda_subdir(w) == IF w = "b2" THEN "linux-64" ELSE "noarch"

Subdirs == {"noarch", "linux-64"}

\* files of the channel directory: <<subdir, file name>>
ChanPaths == {<<sd, CondaName(w)>> : sd \in Subdirs, w \in Wheels}

\* conda_path = output_dir / conda_name, with output_dir = channel / "noarch"
OutputPath(w) == <<"noarch", CondaName(w)>>

RECURSIVE ExtractLoop(_, _)
ExtractLoop(deps, required) ==
    IF deps = <<>> THEN required
    ELSE LET parts == Head(deps) IN
         IF parts # <<>> /\ parts[1] # "python"
         THEN ExtractLoop(Tail(deps), Append(required, parts[1]))
         ELSE ExtractLoop(Tail(deps), required)

\* _extract_dependencies (required list)
_extract_dependencies(w) == Some(ExtractLoop(ConvDependencies(w), <<>>))

\* datetime.now(UTC)
Now == "2026-01-01T00:00:00+00:00"

\* the WheelState written after a successful conversion
ConvertedState(w) ==
    [WheelState("converted") EXCEPT
        !.converted_at = Now,
        !.conda_file = CondaName(w),
        !.subdir = conda_subdir(w),
        !.dependencies = _extract_dependencies(w),
        !.original_requirements = Some(RawRequirements(w))]

\* what a conversion attempt with result res leaves at the output path:
\* the finished archive; a partly written one when writing the archive
\* fails; nothing new when the attempt ends before the archive is opened
AfterConvert_Unflushed(files, w, res) ==
    IF res \in {"ok", "E_exc"} THEN [files EXCEPT ![OutputPath(w)] = "partial"]
    ELSE files

AfterConvert(files, w, res) ==
    IF res = "ok" THEN [files EXCEPT ![OutputPath(w)] = "complete"]
    ELSE IF res = "E_exc" THEN [files EXCEPT ![OutputPath(w)] = "partial"]
    ELSE files

SetItem_OwnCopy(state, filename, ws) == [w \in {filename} |-> ws]

\* state[filename] = WheelState(...)
SetItem(state, filename, ws) ==
    [w \in DOMAIN state \cup {filename} |-> IF w = filename THEN ws ELSE state[w]]

(***************************************************************************)
(* cli.py: what `add` writes                                               *)
(***************************************************************************)

\* WheelInfo.sha256
Sha256(w) == "sha256-digest"

\* names of the required dependencies of a wheel (_is_required_dep,
\* _extract_dep_name)
AddRequiredNames(w) == IF w = "b1" THEN <<>> ELSE <<"requests">>

\* the WheelState _write_package_files creates for a wheel
AddedState(w) ==
    [WheelState("pending") EXCEPT
        !.sha256 = Sha256(w),
        !.dependencies = IF w \in HasMetadata THEN Some(AddRequiredNames(w))
                         ELSE NoneVal,
        !.original_requirements = IF w \in HasMetadata THEN Some(RawRequirements(w))
                                  ELSE NoneVal]

RECURSIVE AddedStates(_)
AddedStates(wheels) ==
    IF wheels = <<>> THEN EmptyMap
    ELSE SetItem(AddedStates(Tail(wheels)), Head(wheels), AddedState(Head(wheels)))

\* the name the mapping service returns for a package, if any
CondaMapping(p) == IF p = "pb" THEN "conda-pb" ELSE Null

\* outcomes of the crawl and of the operator's answers for one package:
\* wheels found (with the mapping name, if there is one); no wheels and a
\* mapping name from the service or from the operator; no wheels and the
\* operator's choice of an empty package
AddKinds(p) ==
    IF CondaMapping(p) # Null THEN {"wheels_cf", "cf"}
    ELSE {"wheels", "cf", "empty"}

NoDecl == [exists |-> FALSE, wheels |-> <<>>, conda_forge |-> Null]

\* the declaration file written for an outcome
DeclFor(p, kind) ==
    [exists |-> TRUE,
     wheels |-> IF kind \in {"wheels", "wheels_cf"} THEN PyPIWheels[p] ELSE <<>>,
     conda_forge |-> IF kind \in {"cf", "wheels_cf"}
                     THEN (IF CondaMapping(p) # Null THEN CondaMapping(p)
                           ELSE "operator-name")
                     ELSE Null]

(***************************************************************************)
(* State                                                                   *)
(***************************************************************************)

VARIABLES
    declFile,     \* packages/<name>.toml
    fs,           \* state/<name>.json and state/<name>.json.tmp
    cmd,          \* the running verb
    pc,           \* its position
    dryRun,       \* --dry-run
    pkgs,         \* packages the sequential sync has still to visit
    curPkg,       \* package of the running sync_package call
    pending,      \* wheels sync_package has still to visit
    mem,          \* in-memory state dicts (state / package_states)
    tasks,        \* asyncio wheel tasks of sync_all_async
    savePkg,      \* package whose state file is being written
    saveRet,      \* position to resume at after the write
    addTodo,      \* what cmd_add has still to write
    attempts,     \* history: non-dry-run attempts made on each wheel
    attempted,    \* history: wheels attempted so far in the running sync
    runPending,   \* history: wheels that were pending when the sync started
    endCause,     \* history: how the last verb ended
    unattempted,  \* history: wheels the last sync left unattempted
    seenFailed,   \* history: retry counters persisted with status failed
    errLog,       \* history: the wheel error just raised in the sync
    crashes,      \* history: how many processes were stopped
    chan,         \* the channel directory: state of each .conda file
    seen,         \* crawl: normalized names start_fetch has visited
    existing,     \* crawl: existing_packages, read when the crawl starts
    force,        \* crawl: --force
    queue,        \* crawl: the pending list of names to dispatch
    active,       \* crawl: active_tasks, one fetch task per dispatched name
    packages_to_add, \* crawl: the output bucket
    needs_input,  \* crawl: the error bucket
    crawlPc,      \* crawl: position of _add_packages_async
    dispatched,   \* history: how often each normalized name was dispatched
    tUnseen,      \* task pool: tasks not created yet
    tWaiting,     \* task pool: tasks created, waiting for the semaphore
    tRunning,     \* task pool: tasks inside `async with semaphore`
    tDone,        \* task pool: finished tasks the completion loop has not taken
    addNeeds,     \* cmd_add: entries of needs_input not yet prompted for
    nonInteractive, \* cmd_add: --non-interactive, or stdin is not a terminal
    failedRun,    \* wheels in the `failed` lists of the running sync's results
    convertedRun, \* wheels in the `converted` lists of the running sync's results
    exitCode,     \* history: what the last verb returned to the shell
    vPackages,    \* validate: list_packages(packages_dir)
    vWheels,      \* validate: the wheels of one package, in state-file order
    vState,       \* validate: the package's state records
    vMissing,     \* validate: the names reported missing for the package
    vPc,          \* validate: position
    oTasks,       \* output paths: the stage of each wheel task of a run
    mTree,        \* markers: Marker._markers of one requirement
    mResult,      \* markers: what _convert_marker_tree returned or raised
    mCondition,   \* markers: what _convert_dependencies made of it
    mPc,          \* markers: position
    cPlan,        \* comparison: the outcome each wheel's attempt will have
    cStart,       \* comparison: the directories both runs start from
    cSeqFinal,    \* comparison: status and retry counter sync_all left
    cPhase,       \* comparison: which of the two runs is next or running
    cvEntries,    \* conversion: the ZIP entries of the wheel
    cvPos,        \* conversion: the entry stream_unzip yields next
    cvDepsRaise,  \* conversion: _convert_dependencies will raise
    dist_info_prefix,  \* conversion: as in convert_wheel
    buffered_metadata, \* conversion: as in convert_wheel
    pkg_writer,   \* conversion: the StreamingTarZstWriter on the temp file
    file_metadata,     \* conversion: as in convert_wheel
    pkg_tmp,      \* conversion: the scratch temp file
    cvOut,        \* conversion: the .conda file at conda_path
    cvPc,         \* conversion: position, or how convert_wheel ended
    mvReleases,   \* versions: get_package_releases(package), newest first
    mvConstraint, \* versions: the constraint
    mvMax,        \* versions: max_versions
    mvIncludeYanked, \* versions: include_yanked
    mvPos,        \* versions: the release the generator looks at next
    mvCount,      \* versions: count of get_matching_versions
    mvYielded,    \* versions: what the generator has yielded
    mvAsyncResult, \* versions: what get_matching_versions_async returned
    mvPc,         \* versions: position
    rtState,      \* round trip: the WheelState in memory
    rtDict,       \* round trip: its to_dict()
    rtBack,       \* round trip: from_dict of that
    rtFile,       \* round trip: the state file save_state wrote
    rtLoaded,     \* round trip: what load_state returned
    rtPc          \* round trip: position

vars == <<declFile, fs, cmd, pc, dryRun, pkgs, curPkg, pending, mem,
          tasks, savePkg, saveRet, addTodo, attempts, attempted, runPending,
          endCause, unattempted, seenFailed, errLog, crashes, chan,
          seen, existing, force, queue, active, packages_to_add, needs_input,
          crawlPc, dispatched, tUnseen, tWaiting, tRunning, tDone,
          addNeeds, nonInteractive, failedRun, convertedRun, exitCode,
          vPackages, vWheels, vState, vMissing, vPc, oTasks,
          mTree, mResult, mCondition, mPc,
          cPlan, cStart, cSeqFinal, cPhase,
          cvEntries, cvPos, cvDepsRaise, dist_info_prefix, buffered_metadata,
          pkg_writer, file_metadata, pkg_tmp, cvOut, cvPc,
          mvReleases, mvConstraint, mvMax, mvIncludeYanked, mvPos, mvCount,
          mvYielded, mvAsyncResult, mvPc,
          rtState, rtDict, rtBack, rtFile, rtLoaded, rtPc>>

crawlVars == <<seen, existing, force, queue, active, packages_to_add,
               needs_input, crawlPc, dispatched>>

poolVars == <<tUnseen, tWaiting, tRunning, tDone>>

cliVars == <<addNeeds, nonInteractive>>

valVars == <<vPackages, vWheels, vState, vMissing, vPc>>

markerVars == <<mTree, mResult, mCondition, mPc>>

cmpVars == <<cPlan, cStart, cSeqFinal, cPhase>>

verVars == <<mvReleases, mvConstraint, mvMax, mvIncludeYanked, mvPos, mvCount,
             mvYielded, mvAsyncResult, mvPc>>

rtVars == <<rtState, rtDict, rtBack, rtFile, rtLoaded, rtPc>>

convVars == <<cvEntries, cvPos, cvDepsRaise, dist_info_prefix, buffered_metadata,
              pkg_writer, file_metadata, pkg_tmp, cvOut, cvPc>>

\* the variables of the specifications that follow the marker translation
laterVars == <<cmpVars, convVars, verVars, rtVars>>

\* no comparison of the two sync paths is under way
CmpIdle ==
    /\ cPlan = <<>>
    /\ cStart = <<>>
    /\ cSeqFinal = <<>>
    /\ cPhase = "idle"

\* StreamingTarZstWriter.__init__
NewWriter == [_tar |-> <<>>, _files |-> <<>>]

NoPrefix == <<>>

NoBuffered == [n \in {} |-> <<>>]

\* the .conda file at conda_path: absent, or left by an earlier conversion
OldConda == [kind |-> "old", paths |-> <<>>, pkg |-> <<>>]

NoConda == [kind |-> "none", paths |-> <<>>, pkg |-> <<>>]

\* no conversion is under way
ConvIdle ==
    /\ cvEntries = <<>>
    /\ cvPos = 0
    /\ cvDepsRaise = FALSE
    /\ dist_info_prefix = NoPrefix
    /\ buffered_metadata = NoBuffered
    /\ pkg_writer = NewWriter
    /\ file_metadata = <<>>
    /\ pkg_tmp = "none"
    /\ cvOut = NoConda
    /\ cvPc = "idle"

\* no version list is being filtered
VerIdle ==
    /\ mvReleases = <<>>
    /\ mvConstraint = 0
    /\ mvMax = 0
    /\ mvIncludeYanked = FALSE
    /\ mvPos = 0
    /\ mvCount = 0
    /\ mvYielded = <<>>
    /\ mvAsyncResult = <<>>
    /\ mvPc = "idle"

\* no WheelState is being serialised
RtIdle ==
    /\ rtState = <<>>
    /\ rtDict = <<>>
    /\ rtBack = <<>>
    /\ rtFile = <<>>
    /\ rtLoaded = <<>>
    /\ rtPc = "idle"

LaterIdle == CmpIdle /\ ConvIdle /\ VerIdle /\ RtIdle

\* nothing translated yet
NoResult == [raised |-> FALSE, text |-> ""]

NoCondition == [kind |-> "none", text |-> ""]

\* the variables of the specifications of single functions and steps
pureVars == <<valVars, oTasks, markerVars, laterVars>>

\* what the sync and add-writing steps never touch
elsewhere == <<crawlVars, poolVars, cliVars, pureVars>>

runOut == <<failedRun, convertedRun, exitCode>>

EmptySeqMap == [n \in {} |-> <<>>]

\* no crawl is running
CrawlIdle ==
    /\ seen = {}
    /\ existing = {}
    /\ force = FALSE
    /\ queue = <<>>
    /\ active = EmptySeqMap
    /\ packages_to_add = <<>>
    /\ needs_input = <<>>
    /\ crawlPc = "idle"
    /\ dispatched = EmptySeqMap

\* no function is being evaluated
FunctionsIdle ==
    /\ vPackages = {}
    /\ vWheels = <<>>
    /\ vState = <<>>
    /\ vMissing = <<>>
    /\ vPc = "idle"
    /\ oTasks = EmptyMap
    /\ mTree = <<>>
    /\ mResult = NoResult
    /\ mCondition = NoCondition
    /\ mPc = "idle"

PureIdle == FunctionsIdle /\ LaterIdle

\* no marker is being translated
MarkerIdle ==
    /\ mTree = <<>>
    /\ mResult = NoResult
    /\ mCondition = NoCondition
    /\ mPc = "idle"
    /\ LaterIdle

\* no task pool exists
PoolIdle ==
    /\ tUnseen = 0
    /\ tWaiting = 0
    /\ tRunning = 0
    /\ tDone = 0

durable == <<declFile, fs, chan>>

NoTask == [st |-> "none", res |-> "none"]

NoErr == [w |-> "none", stored |-> 0]

NoMem == [p \in Packages |-> EmptyMap]

\* no verb is running
InitProc ==
    /\ cmd = "idle"
    /\ pc = "idle"
    /\ dryRun = FALSE
    /\ pkgs = <<>>
    /\ curPkg = "none"
    /\ pending = <<>>
    /\ mem = NoMem
    /\ tasks = [w \in Wheels |-> NoTask]
    /\ savePkg = "none"
    /\ saveRet = "idle"
    /\ addTodo = EmptyMap
    /\ attempts = [w \in Wheels |-> 0]
    /\ attempted = {}
    /\ runPending = {}
    /\ endCause = "none"
    /\ unattempted = {}
    /\ seenFailed = [w \in Wheels |-> {}]
    /\ errLog = NoErr
    /\ crashes = 0
    /\ addNeeds = <<>>
    /\ nonInteractive = FALSE
    /\ failedRun = {}
    /\ convertedRun = {}
    /\ exitCode = "none"

\* empty declarations and state directories
Init ==
    /\ declFile = [p \in Packages |-> NoDecl]
    /\ fs = [x \in Paths |-> NoFile]
    /\ chan = [x \in ChanPaths |-> "none"]
    /\ InitProc
    /\ PureIdle
    /\ CrawlIdle
    /\ PoolIdle

(***************************************************************************)
(* Views of the persisted state                                            *)
(***************************************************************************)

\* the record of wheel w in a state file's content, if any
HasRecordIn(f, w) == f.kind = "doc" /\ w \in DOMAIN f.doc

StatusIn(f, w) == IF HasRecordIn(f, w) THEN f.doc[w].status ELSE "absent"

RetryIn(f, w) ==
    IF HasRecordIn(f, w) /\ f.doc[w].retry_count # AbsentInt
    THEN f.doc[w].retry_count ELSE 0

StateFile(w) == fs[StatePath(PkgOf(w))]

HasRecord(w) == HasRecordIn(StateFile(w), w)

Status(w) == StatusIn(StateFile(w), w)

Retry(w) == RetryIn(StateFile(w), w)

\* history bookkeeping for a step that makes nf the content of p's state
\* file: the counters with which a wheel on its way to `skipped` was `failed`
SeenAfter(p, nf) ==
    [w \in Wheels |->
        IF PkgOf(w) # p THEN seenFailed[w]
        ELSE IF StatusIn(nf, w) = "failed" THEN seenFailed[w] \cup {RetryIn(nf, w)}
        ELSE IF StatusIn(nf, w) = "skipped" THEN seenFailed[w]
        ELSE {}]

\* list_packages
RECURSIVE Declared(_)
Declared(order) ==
    IF order = <<>> THEN <<>>
    ELSE IF declFile[Head(order)].exists
         THEN <<Head(order)>> \o Declared(Tail(order))
         ELSE Declared(Tail(order))

list_packages == Declared(PkgOrder)

SeqSet(s) == {s[i] : i \in DOMAIN s}

\* the wheels of a package that are pending according to the files on disk
PendingOnDisk(p) ==
    IF declFile[p].exists /\ ~LoadRaises(fs[StatePath(p)])
    THEN SeqSet(get_pending_wheels(declFile[p], load_state(fs[StatePath(p)])))
    ELSE {}

(***************************************************************************)
(* Process bookkeeping                                                     *)
(***************************************************************************)

ExitCodeFor_Zero(failed) == "0"

\* return 1 if total_failed > 0 else 0 (cmd_sync); return 1 if result.failed
\* else 0 (cmd_sync_package)
ExitCodeFor(failed) == IF failed # {} THEN "1" ELSE "0"

RECURSIVE SumOver(_, _)
SumOver(f, S) ==
    IF S = {} THEN 0
    ELSE LET x == CHOOSE y \in S : TRUE IN f[x] + SumOver(f, S \ {x})

\* the verb returns or dies: its memory is gone.  att is the set of wheels
\* the sync has attempted when it ends.
Terminate(cause, att) ==
    /\ cmd' = "idle"
    /\ pc' = "idle"
    /\ dryRun' = FALSE
    /\ pkgs' = <<>>
    /\ curPkg' = "none"
    /\ pending' = <<>>
    /\ mem' = NoMem
    /\ tasks' = [w \in Wheels |-> NoTask]
    /\ savePkg' = "none"
    /\ saveRet' = "idle"
    /\ addTodo' = EmptyMap
    /\ endCause' = cause
    /\ unattempted' = IF cause = "crash" THEN {} ELSE runPending \ att
    /\ attempted' = {}
    /\ runPending' = {}

\* the process is stopped (kill, power loss) at its current position
Crash ==
    /\ cmd # "idle"
    /\ Terminate("crash", attempted)
    /\ crashes < MaxCrashes
    /\ crashes' = crashes + 1
    /\ errLog' = NoErr
    /\ fs' = [x \in Paths |->
                IF x \in {StatePath(p) : p \in Packages} \/ fs[x].kind = "none"
                THEN fs[x] ELSE Stale]
    /\ UNCHANGED <<declFile, chan, attempts, seenFailed>>
    /\ UNCHANGED elsewhere
    /\ failedRun' = {}
    /\ convertedRun' = {}
    /\ exitCode' = "none"

(***************************************************************************)
(* state.py: save_state, step by step                                      *)
(***************************************************************************)

\* with open(temp_path, "w")
SaveOpen ==
    /\ pc = "save_open"
    /\ fs' = [fs EXCEPT ![TempPath(savePkg)] = Trunc]
    /\ pc' = "save_dump"
    /\ UNCHANGED <<declFile, chan, cmd, dryRun, pkgs, curPkg, pending, mem,
                   tasks, savePkg, saveRet, addTodo, attempts, attempted,
                   runPending, endCause, unattempted, seenFailed, errLog,
                   crashes>>
    /\ UNCHANGED elsewhere
    /\ UNCHANGED runOut

\* json.dump(data, f, indent=2) and close
SaveDump ==
    /\ pc = "save_dump"
    /\ fs' = [fs EXCEPT ![TempPath(savePkg)] = Doc(DumpData(mem[savePkg]))]
    /\ pc' = "save_replace"
    /\ UNCHANGED <<declFile, chan, cmd, dryRun, pkgs, curPkg, pending, mem,
                   tasks, savePkg, saveRet, addTodo, attempts, attempted,
                   runPending, endCause, unattempted, seenFailed, errLog,
                   crashes>>
    /\ UNCHANGED elsewhere
    /\ UNCHANGED runOut

\* temp_path.replace(state_path)
SaveReplace ==
    /\ pc = "save_replace"
    /\ LET nf == fs[TempPath(savePkg)] IN
         /\ fs' = [x \in Paths |->
                     IF x = StatePath(savePkg) THEN nf
                     ELSE IF x = TempPath(savePkg) THEN NoFile ELSE fs[x]]
         /\ seenFailed' = SeenAfter(savePkg, nf)
    /\ pc' = saveRet
    /\ savePkg' = "none"
    /\ saveRet' = "idle"
    /\ UNCHANGED <<declFile, chan, cmd, dryRun, pkgs, curPkg, pending, mem,
                   tasks, addTodo, attempts, attempted, runPending, endCause,
                   unattempted, errLog, crashes>>
    /\ UNCHANGED elsewhere
    /\ UNCHANGED runOut

CallSave_Skip(p, ret) == pc' = ret /\ UNCHANGED <<savePkg, saveRet>>

\* the caller's call of save_state(state_dir, p, state)
CallSave(p, ret) ==
    /\ pc' = "save_open"
    /\ savePkg' = p
    /\ saveRet' = ret

(***************************************************************************)
(* cli.py: cmd_add, the writing phase                                      *)
(***************************************************************************)

\* the crawl and the prompts are over: packages_to_add and
\* empty_packages_to_add are known.  A package that is already declared is
\* not fetched (start_fetch, without --force).
AddStart(plan) ==
    /\ cmd = "idle"
    /\ DOMAIN plan # {}
    /\ \A p \in DOMAIN plan : ~declFile[p].exists
    /\ cmd' = "add"
    /\ pc' = "add_write"
    /\ addTodo' = plan
    /\ endCause' = "none"
    /\ unattempted' = {}
    /\ errLog' = NoErr
    /\ UNCHANGED <<durable, dryRun, pkgs, curPkg, pending, mem, tasks, savePkg,
                   saveRet, attempts, attempted, runPending, seenFailed,
                   crashes>>
    /\ UNCHANGED elsewhere
    /\ failedRun' = {}
    /\ convertedRun' = {}
    /\ exitCode' = "none"

Without(f, p) == [x \in DOMAIN f \ {p} |-> f[x]]

\* _write_package_files for an entry without wheels: the declaration only
AddWriteMapping(p) ==
    /\ pc = "add_write"
    /\ p \in DOMAIN addTodo
    /\ addTodo[p] = "cf"
    /\ declFile' = [declFile EXCEPT ![p] = DeclFor(p, "cf")]
    /\ addTodo' = Without(addTodo, p)
    /\ UNCHANGED <<fs, chan, cmd, pc, dryRun, pkgs, curPkg, pending, mem,
                   tasks, savePkg, saveRet, attempts, attempted, runPending,
                   endCause, unattempted, seenFailed, errLog, crashes>>
    /\ UNCHANGED elsewhere
    /\ UNCHANGED runOut

\* _write_package_files for an entry with wheels: the declaration, then
\* save_state of a fresh dict of pending wheels
AddWritePackage(p) ==
    /\ pc = "add_write"
    /\ p \in DOMAIN addTodo
    /\ addTodo[p] \in {"wheels", "wheels_cf"}
    /\ declFile' = [declFile EXCEPT ![p] = DeclFor(p, addTodo[p])]
    /\ mem' = [mem EXCEPT ![p] = AddedStates(PyPIWheels[p])]
    /\ CallSave(p, "add_write")
    /\ addTodo' = Without(addTodo, p)
    /\ UNCHANGED <<fs, chan, cmd, dryRun, pkgs, curPkg, pending, tasks,
                   attempts, attempted, runPending, endCause, unattempted,
                   seenFailed, errLog, crashes>>
    /\ UNCHANGED elsewhere
    /\ UNCHANGED runOut

\* _write_empty_package: config_path.write_text, then state_path.write_text
\* opens the state file for writing
AddEmptyOpen(p) ==
    /\ pc = "add_write"
    /\ p \in DOMAIN addTodo
    /\ \A q \in DOMAIN addTodo : addTodo[q] = "empty"
    /\ declFile' = [declFile EXCEPT ![p] = DeclFor(p, "empty")]
    /\ fs' = [fs EXCEPT ![StatePath(p)] = Trunc]
    /\ seenFailed' = SeenAfter(p, Trunc)
    /\ pc' = "add_empty"
    /\ savePkg' = p
    /\ addTodo' = Without(addTodo, p)
    /\ UNCHANGED <<chan, cmd, dryRun, pkgs, curPkg, pending, mem, tasks,
                   saveRet, attempts, attempted, runPending, endCause,
                   unattempted, errLog, crashes>>
    /\ UNCHANGED elsewhere
    /\ UNCHANGED runOut

\* state_path.write_text("{}\n") writes and closes
AddEmptyWrite ==
    /\ pc = "add_empty"
    /\ fs' = [fs EXCEPT ![StatePath(savePkg)] = Doc(EmptyMap)]
    /\ pc' = "add_write"
    /\ savePkg' = "none"
    /\ UNCHANGED <<declFile, chan, cmd, dryRun, pkgs, curPkg, pending, mem,
                   tasks, saveRet, addTodo, attempts, attempted, runPending,
                   endCause, unattempted, seenFailed, errLog, crashes>>
    /\ UNCHANGED elsewhere
    /\ UNCHANGED runOut

\* cmd_add returns 0
AddFinish ==
    /\ cmd = "add"
    /\ pc = "add_write"
    /\ DOMAIN addTodo = {}
    /\ Terminate("done", attempted)
    /\ exitCode' = "0"
    /\ UNCHANGED <<durable, attempts, seenFailed, errLog, crashes, failedRun,
                   convertedRun>>
    /\ UNCHANGED elsewhere

(***************************************************************************)
(* sync.py: sync_all / sync_package, the sequential path                   *)
(***************************************************************************)

SyncScopes == {"all"} \cup Packages

\* error texts: str(e) of a PyPIError; the text recorded for a failed
\* download or conversion
ConvertErrors == {"E_exc"}

PendingOnDiskOf(ps) == UNION {PendingOnDisk(p) : p \in ps}

\* cmd_sync --quiet (scope "all") or cmd_sync_package <scope>
SeqStart(scope, dry) ==
    /\ cmd = "idle"
    /\ cmd' = IF scope = "all" THEN "sync" ELSE "sync_package"
    /\ pc' = "pkg"
    /\ dryRun' = dry
    /\ pkgs' = IF scope = "all" THEN list_packages ELSE <<scope>>
    /\ runPending' = PendingOnDiskOf(IF scope = "all" THEN SeqSet(list_packages)
                                     ELSE {scope})
    /\ attempted' = {}
    /\ endCause' = "none"
    /\ unattempted' = {}
    /\ errLog' = NoErr
    /\ UNCHANGED <<durable, curPkg, pending, mem, tasks, savePkg, saveRet,
                   addTodo, attempts, seenFailed, crashes>>
    /\ UNCHANGED elsewhere
    /\ failedRun' = {}
    /\ convertedRun' = {}
    /\ exitCode' = "none"

\* sync_package: load_package_config, load_state, get_pending_wheels
SeqLoadPackage ==
    /\ cmd \in {"sync", "sync_package"}
    /\ pc = "pkg"
    /\ pkgs # <<>>
    /\ LET p == Head(pkgs)
           state == load_state(fs[StatePath(p)])
           pend == get_pending_wheels(declFile[p], state)
       IN /\ declFile[p].exists
          /\ ~LoadRaises(fs[StatePath(p)])
          /\ curPkg' = p
          /\ mem' = [mem EXCEPT ![p] = state]
          /\ pending' = pend
          /\ pc' = IF pend = <<>> THEN "pkg" ELSE "loop"
    /\ pkgs' = Tail(pkgs)
    /\ errLog' = NoErr
    /\ UNCHANGED <<durable, cmd, dryRun, tasks, savePkg, saveRet, addTodo,
                   attempts, attempted, runPending, endCause, unattempted,
                   seenFailed, crashes>>
    /\ UNCHANGED elsewhere
    /\ UNCHANGED runOut

\* load_package_config raises StateError (no declaration) or json.load
\* raises (unreadable state file): nothing catches it
SeqLoadFails ==
    /\ cmd \in {"sync", "sync_package"}
    /\ pc = "pkg"
    /\ pkgs # <<>>
    /\ ~declFile[Head(pkgs)].exists \/ LoadRaises(fs[StatePath(Head(pkgs))])
    /\ Terminate(IF declFile[Head(pkgs)].exists THEN "state_corrupt"
                 ELSE "decl_missing", attempted)
    /\ errLog' = NoErr
    /\ UNCHANGED <<durable, attempts, seenFailed, crashes>>
    /\ UNCHANGED elsewhere
    /\ exitCode' = "1"
    /\ UNCHANGED <<failedRun, convertedRun>>

\* sync_all returns its results
SeqFinish ==
    /\ cmd \in {"sync", "sync_package"}
    /\ pc = "pkg"
    /\ pkgs = <<>>
    /\ Terminate("done", attempted)
    /\ errLog' = NoErr
    /\ UNCHANGED <<durable, attempts, seenFailed, crashes>>
    /\ UNCHANGED elsewhere
    /\ exitCode' = ExitCodeFor(failedRun)
    /\ UNCHANGED <<failedRun, convertedRun>>

AfterWheel(rest) == IF rest = <<>> THEN "pkg" ELSE "loop"

\* if dry_run: result.converted.append(...); continue
SeqDryWheel ==
    /\ pc = "loop"
    /\ dryRun
    /\ pending # <<>>
    /\ attempted' = attempted \cup {Head(pending)}
    /\ pending' = Tail(pending)
    /\ pc' = AfterWheel(Tail(pending))
    /\ UNCHANGED <<durable, cmd, dryRun, pkgs, curPkg, mem, tasks, savePkg,
                   saveRet, addTodo, attempts, runPending, endCause,
                   unattempted, seenFailed, errLog, crashes>>
    /\ UNCHANGED elsewhere
    /\ convertedRun' = convertedRun \cup {Head(pending)}
    /\ UNCHANGED <<failedRun, exitCode>>

\* bookkeeping of a non-dry-run attempt on wheel w
Attempt(w) ==
    /\ SumOver(attempts, Wheels) < MaxAttempts
    /\ attempts' = [attempts EXCEPT ![w] = @ + 1]
    /\ attempted' = attempted \cup {w}

\* _find_wheel_url raises something that is not a PyPIError (client.get
\* fails, raise_for_status on a non-404 response): no handler in
\* sync_package or sync_all, the verb dies with the exception
SeqLookupRaises ==
    /\ pc = "loop"
    /\ ~dryRun
    /\ pending # <<>>
    /\ SumOver(attempts, Wheels) < MaxAttempts
    /\ attempts' = [attempts EXCEPT ![Head(pending)] = @ + 1]
    /\ errLog' = [w |-> Head(pending), stored |-> Retry(Head(pending))]
    /\ Terminate("wheel_error", attempted \cup {Head(pending)})
    /\ UNCHANGED <<durable, seenFailed, crashes>>
    /\ UNCHANGED elsewhere
    /\ failedRun' = failedRun \cup {Head(pending)}
    /\ exitCode' = "1"
    /\ UNCHANGED convertedRun

\* the wheel's failure is recorded and saved; the loop goes on
SeqRecordFailure(error) ==
    /\ pc = "loop"
    /\ ~dryRun
    /\ pending # <<>>
    /\ LET w == Head(pending) IN
         /\ Attempt(w)
         /\ errLog' = [w |-> w, stored |-> Retry(w)]
         /\ mem' = [mem EXCEPT ![curPkg] = _update_failed_state(@, w, error)]
         /\ chan' = AfterConvert(chan, w, error)
    /\ pending' = Tail(pending)
    /\ CallSave(curPkg, AfterWheel(Tail(pending)))
    /\ UNCHANGED <<declFile, fs, cmd, dryRun, pkgs, curPkg, tasks, addTodo,
                   runPending, endCause, unattempted, seenFailed, crashes>>
    /\ UNCHANGED elsewhere
    /\ failedRun' = failedRun \cup {Head(pending)}
    /\ UNCHANGED <<convertedRun, exitCode>>

\* except PyPIError around _find_wheel_url (404, wheel not listed)
SeqLookupNotFound == SeqRecordFailure("E_pypi")

\* except DependencyConversionError / except Exception around download_wheel
\* and convert_wheel
SeqConvertFails(error) == SeqRecordFailure(error)

\* download, convert, record `converted`, save
SeqConvertOk ==
    /\ pc = "loop"
    /\ ~dryRun
    /\ pending # <<>>
    /\ LET w == Head(pending) IN
         /\ Attempt(w)
         /\ mem' = [mem EXCEPT ![curPkg] = SetItem(@, w, ConvertedState(w))]
         /\ chan' = AfterConvert(chan, w, "ok")
    /\ pending' = Tail(pending)
    /\ CallSave(curPkg, AfterWheel(Tail(pending)))
    /\ errLog' = NoErr
    /\ UNCHANGED <<declFile, fs, cmd, dryRun, pkgs, curPkg, tasks, addTodo,
                   runPending, endCause, unattempted, seenFailed, crashes>>
    /\ UNCHANGED elsewhere
    /\ convertedRun' = convertedRun \cup {Head(pending)}
    /\ UNCHANGED <<failedRun, exitCode>>

(***************************************************************************)
(* sync.py: sync_all_async, the asyncio path                               *)
(***************************************************************************)

AllPendingOnDisk == PendingOnDiskOf(SeqSet(list_packages))

\* load every package, create one task per pending wheel
AsyncStart(dry) ==
    /\ cmd = "idle"
    /\ \A p \in SeqSet(list_packages) : ~LoadRaises(fs[StatePath(p)])
    /\ cmd' = "sync_async"
    /\ pc' = "wait"
    /\ dryRun' = dry
    /\ mem' = [p \in Packages |->
                 IF declFile[p].exists THEN load_state(fs[StatePath(p)])
                 ELSE EmptyMap]
    /\ tasks' = [w \in Wheels |->
                   IF w \in AllPendingOnDisk THEN [st |-> "waiting", res |-> "none"]
                   ELSE NoTask]
    /\ runPending' = AllPendingOnDisk
    /\ attempted' = {}
    /\ endCause' = "none"
    /\ unattempted' = {}
    /\ errLog' = NoErr
    /\ UNCHANGED <<durable, pkgs, curPkg, pending, savePkg, saveRet, addTodo,
                   attempts, seenFailed, crashes>>
    /\ UNCHANGED elsewhere
    /\ failedRun' = {}
    /\ convertedRun' = {}
    /\ exitCode' = "none"

\* load_state raises on some package while the tasks are collected
AsyncStartFails ==
    /\ cmd = "idle"
    /\ \E p \in SeqSet(list_packages) : LoadRaises(fs[StatePath(p)])
    /\ UNCHANGED <<cmd, pc, dryRun, pkgs, curPkg, pending, mem, tasks, savePkg,
                   saveRet, addTodo, attempted, runPending>>
    /\ endCause' = "state_corrupt"
    /\ unattempted' = AllPendingOnDisk
    /\ errLog' = NoErr
    /\ UNCHANGED <<durable, attempts, seenFailed, crashes>>
    /\ UNCHANGED elsewhere
    /\ exitCode' = "1"
    /\ failedRun' = {}
    /\ convertedRun' = {}

Running == {w \in Wheels : tasks[w].st = "running"}

SyncSemFree_Unbounded(held) == TRUE

\* asyncio.Semaphore(10): acquire goes through while fewer than 10 hold it
SyncSemFree(held) == held < SemLimit

\* async with semaphore
TaskAcquire(w) ==
    /\ cmd = "sync_async"
    /\ pc = "wait"
    /\ tasks[w].st = "waiting"
    /\ SyncSemFree(Cardinality(Running))
    /\ tasks' = [tasks EXCEPT ![w].st = "running"]
    /\ UNCHANGED <<durable, cmd, pc, dryRun, pkgs, curPkg, pending, mem,
                   savePkg, saveRet, addTodo, attempts, attempted, runPending,
                   endCause, unattempted, seenFailed, errLog, crashes>>
    /\ UNCHANGED elsewhere
    /\ UNCHANGED runOut

TaskResults_IgnoreDryRun(dry) == {"ok", "E_pypi"} \cup ConvertErrors

\* results _sync_single_wheel can return
TaskResults(dry) ==
    IF dry THEN {"ok_dry", "E_pypi", "E_exc"}
    ELSE {"ok", "E_pypi"} \cup ConvertErrors

\* _sync_single_wheel returns a _WheelResult and the semaphore is released
TaskFinish(w, res) ==
    /\ cmd = "sync_async"
    /\ pc = "wait"
    /\ tasks[w].st = "running"
    /\ res \in TaskResults(dryRun)
    /\ IF dryRun
       THEN attempted' = attempted \cup {w} /\ attempts' = attempts /\ chan' = chan
       ELSE Attempt(w) /\ chan' = AfterConvert(chan, w, res)
    /\ tasks' = [tasks EXCEPT ![w] = [st |-> "done", res |-> res]]
    /\ UNCHANGED <<declFile, fs, cmd, pc, dryRun, pkgs, curPkg, pending, mem,
                   savePkg, saveRet, addTodo, runPending, endCause, unattempted,
                   seenFailed, errLog, crashes>>
    /\ UNCHANGED elsewhere
    /\ UNCHANGED runOut

\* completion loop, result.success with a conversion result
ProcessOk(w) ==
    /\ cmd = "sync_async"
    /\ pc = "wait"
    /\ tasks[w] = [st |-> "done", res |-> "ok"]
    /\ tasks' = [tasks EXCEPT ![w] = NoTask]
    /\ mem' = [mem EXCEPT ![PkgOf(w)] = SetItem(@, w, ConvertedState(w))]
    /\ CallSave(PkgOf(w), "wait")
    /\ errLog' = NoErr
    /\ UNCHANGED <<durable, cmd, dryRun, pkgs, curPkg, pending, addTodo,
                   attempts, attempted, runPending, endCause, unattempted,
                   seenFailed, crashes>>
    /\ UNCHANGED elsewhere
    /\ convertedRun' = convertedRun \cup {w}
    /\ UNCHANGED <<failedRun, exitCode>>

\* completion loop, not result.success, not dry_run
ProcessFail(w) ==
    /\ cmd = "sync_async"
    /\ pc = "wait"
    /\ ~dryRun
    /\ tasks[w].st = "done"
    /\ tasks[w].res \in {"E_pypi"} \cup ConvertErrors
    /\ tasks' = [tasks EXCEPT ![w] = NoTask]
    /\ errLog' = [w |-> w, stored |-> Retry(w)]
    /\ mem' = [mem EXCEPT ![PkgOf(w)] = _update_failed_state(@, w, tasks[w].res)]
    /\ CallSave(PkgOf(w), "wait")
    /\ UNCHANGED <<durable, cmd, dryRun, pkgs, curPkg, pending, addTodo,
                   attempts, attempted, runPending, endCause, unattempted,
                   seenFailed, crashes>>
    /\ UNCHANGED elsewhere
    /\ failedRun' = failedRun \cup {w}
    /\ UNCHANGED <<convertedRun, exitCode>>

\* completion loop under dry_run: nothing is recorded
ProcessDry(w) ==
    /\ cmd = "sync_async"
    /\ pc = "wait"
    /\ dryRun
    /\ tasks[w].st = "done"
    /\ tasks' = [tasks EXCEPT ![w] = NoTask]
    /\ UNCHANGED <<durable, cmd, pc, dryRun, pkgs, curPkg, pending, mem,
                   savePkg, saveRet, addTodo, attempts, attempted, runPending,
                   endCause, unattempted, seenFailed, errLog, crashes>>
    /\ UNCHANGED elsewhere
    /\ failedRun' = IF tasks[w].res = "ok_dry" THEN failedRun
                    ELSE failedRun \cup {w}
    /\ convertedRun' = IF tasks[w].res = "ok_dry" THEN convertedRun \cup {w}
                       ELSE convertedRun
    /\ UNCHANGED exitCode

\* active_tasks is empty
AsyncFinish ==
    /\ cmd = "sync_async"
    /\ pc = "wait"
    /\ \A w \in Wheels : tasks[w] = NoTask
    /\ Terminate("done", attempted)
    /\ errLog' = NoErr
    /\ UNCHANGED <<durable, attempts, seenFailed, crashes>>
    /\ UNCHANGED elsewhere
    /\ exitCode' = ExitCodeFor(failedRun)
    /\ UNCHANGED <<failedRun, convertedRun>>

(***************************************************************************)
(* Specification                                                           *)
(***************************************************************************)

AddPlans ==
    UNION {{f \in [S -> {"wheels", "wheels_cf", "cf", "empty"}] :
               \A p \in S : f[p] \in AddKinds(p)} : S \in SUBSET Packages}

Next ==
    \/ \E plan \in AddPlans : AddStart(plan)
    \/ \E p \in Packages : AddWriteMapping(p)
    \/ \E p \in Packages : AddWritePackage(p)
    \/ \E p \in Packages : AddEmptyOpen(p)
    \/ AddEmptyWrite
    \/ AddFinish
    \/ SaveOpen
    \/ SaveDump
    \/ SaveReplace
    \/ \E scope \in SyncScopes, dry \in BOOLEAN : SeqStart(scope, dry)
    \/ SeqLoadPackage
    \/ SeqLoadFails
    \/ SeqFinish
    \/ SeqDryWheel
    \/ SeqLookupRaises
    \/ SeqLookupNotFound
    \/ \E error \in ConvertErrors : SeqConvertFails(error)
    \/ SeqConvertOk
    \/ \E dry \in BOOLEAN : AsyncStart(dry)
    \/ AsyncStartFails
    \/ \E w \in Wheels : TaskAcquire(w)
    \/ \E w \in Wheels, res \in {"ok", "ok_dry", "E_pypi", "E_exc"} :
          TaskFinish(w, res)
    \/ \E w \in Wheels : ProcessOk(w)
    \/ \E w \in Wheels : ProcessFail(w)
    \/ \E w \in Wheels : ProcessDry(w)
    \/ AsyncFinish
    \/ Crash

Spec == Init /\ [][Next]_vars

(***************************************************************************)
(* Pending enumeration on arbitrary declarations and state files           *)
(***************************************************************************)

\* longest declared wheel list drawn
MaxDeclLen == 2

\* largest retry counter drawn
MaxRetryInput == 4

PendingWheels == {"a1", "a2"}

Statuses == {"pending", "converted", "failed", "skipped"}

InputStates ==
    {[WheelState(st) EXCEPT !.retry_count = n] :
        st \in Statuses, n \in 0..MaxRetryInput}

InputMaps == UNION {[S -> InputStates] : S \in SUBSET PendingWheels}

InputDecls == UNION {[1..n -> PendingWheels] : n \in 0..MaxDeclLen}

PendingInit ==
    /\ \E wheels \in InputDecls :
         declFile = [p \in Packages |->
                       IF p = "pa"
                       THEN [exists |-> TRUE, wheels |-> wheels, conda_forge |-> Null]
                       ELSE NoDecl]
    /\ \E m \in InputMaps :
         fs = [x \in Paths |->
                 IF x = StatePath("pa") THEN Doc(DumpData(m)) ELSE NoFile]
    /\ chan = [x \in ChanPaths |-> "none"]
    /\ InitProc
    /\ PureIdle
    /\ CrawlIdle
    /\ PoolIdle

\* config and state are loaded and get_pending_wheels is applied
PendingApply ==
    /\ pc = "idle"
    /\ pc' = "applied"
    /\ curPkg' = "pa"
    /\ pending' = get_pending_wheels(declFile["pa"], load_state(fs[StatePath("pa")]))
    /\ UNCHANGED <<durable, cmd, dryRun, pkgs, mem, tasks, savePkg, saveRet,
                   addTodo, attempts, attempted, runPending, endCause,
                   unattempted, seenFailed, errLog, crashes>>
    /\ UNCHANGED elsewhere
    /\ UNCHANGED runOut

SpecPending == PendingInit /\ [][PendingApply]_vars

(***************************************************************************)
(* Syncs of a declaration an operator wrote by hand                        *)
(***************************************************************************)

\* wheel lists an operator may write into packages/pb.toml
HandDecls == {<<"b2">>, <<"b1", "b2">>, <<"b2", "b1">>}

ChannelInit ==
    /\ \E wheels \in HandDecls :
         declFile = [p \in Packages |->
                       IF p = "pb"
                       THEN [exists |-> TRUE, wheels |-> wheels, conda_forge |-> Null]
                       ELSE NoDecl]
    /\ fs = [x \in Paths |-> NoFile]
    /\ chan = [x \in ChanPaths |-> "none"]
    /\ InitProc
    /\ PureIdle
    /\ CrawlIdle
    /\ PoolIdle

NextSync ==
    \/ SaveOpen
    \/ SaveDump
    \/ SaveReplace
    \/ \E scope \in SyncScopes, dry \in BOOLEAN : SeqStart(scope, dry)
    \/ SeqLoadPackage
    \/ SeqLoadFails
    \/ SeqFinish
    \/ SeqDryWheel
    \/ SeqLookupRaises
    \/ SeqLookupNotFound
    \/ \E error \in ConvertErrors : SeqConvertFails(error)
    \/ SeqConvertOk
    \/ \E dry \in BOOLEAN : AsyncStart(dry)
    \/ \E w \in Wheels : TaskAcquire(w)
    \/ \E w \in Wheels, res \in {"ok", "ok_dry", "E_pypi", "E_exc"} :
          TaskFinish(w, res)
    \/ \E w \in Wheels : ProcessOk(w)
    \/ \E w \in Wheels : ProcessFail(w)
    \/ \E w \in Wheels : ProcessDry(w)
    \/ AsyncFinish
    \/ Crash

SpecChannel == ChannelInit /\ [][NextSync]_vars

(***************************************************************************)
(* sync.py: the task pool of sync_all_async, counted                       *)
(***************************************************************************)

\* most pending wheels a sync starts with
MaxPoolTasks == 12

\* one task is created per pending wheel before any of them runs
SyncPoolInit ==
    /\ tWaiting \in 0..MaxPoolTasks
    /\ tUnseen = 0
    /\ tRunning = 0
    /\ tDone = 0
    /\ declFile = [p \in Packages |-> NoDecl]
    /\ fs = [x \in Paths |-> NoFile]
    /\ chan = [x \in ChanPaths |-> "none"]
    /\ InitProc
    /\ PureIdle
    /\ CrawlIdle

PoolFrame ==
    UNCHANGED <<durable, cmd, pc, dryRun, pkgs, curPkg, pending, mem, tasks,
                savePkg, saveRet, addTodo, attempts, attempted, runPending,
                endCause, unattempted, seenFailed, errLog, crashes, crawlVars,
                cliVars, runOut, pureVars>>

\* sync_wrapper: a task enters `async with semaphore`
SyncPoolAcquire ==
    /\ tWaiting > 0
    /\ SyncSemFree(tRunning)
    /\ tWaiting' = tWaiting - 1
    /\ tRunning' = tRunning + 1
    /\ UNCHANGED <<tUnseen, tDone>>
    /\ PoolFrame

\* _sync_single_wheel returns and the semaphore is released
SyncPoolRelease ==
    /\ tRunning > 0
    /\ tRunning' = tRunning - 1
    /\ tDone' = tDone + 1
    /\ UNCHANGED <<tUnseen, tWaiting>>
    /\ PoolFrame

\* the completion loop pops a finished task from active_tasks
SyncPoolCollect ==
    /\ tDone > 0
    /\ tDone' = tDone - 1
    /\ UNCHANGED <<tUnseen, tWaiting, tRunning>>
    /\ PoolFrame

NextSyncPool == SyncPoolAcquire \/ SyncPoolRelease \/ SyncPoolCollect

SpecSyncPool == SyncPoolInit /\ [][NextSyncPool]_vars

(***************************************************************************)
(* cli.py: the fetch tasks of _add_packages_async, counted                 *)
(***************************************************************************)

\* most packages in the dependency graph of the root
MaxGraph == 52

FetchSemFree_Unbounded(held) == TRUE

\* asyncio.Semaphore(50)
FetchSemFree_Never(held) == held < 0

FetchSemFree(held) == held < FetchLimit

\* start_fetch has created the task of the root package
FetchPoolInit ==
    /\ tUnseen \in 0..(MaxGraph - 1)
    /\ tWaiting = 1
    /\ tRunning = 0
    /\ tDone = 0
    /\ declFile = [p \in Packages |-> NoDecl]
    /\ fs = [x \in Paths |-> NoFile]
    /\ chan = [x \in ChanPaths |-> "none"]
    /\ InitProc
    /\ PureIdle
    /\ CrawlIdle

\* fetch_wrapper: a task enters `async with semaphore`
FetchPoolAcquire ==
    /\ tWaiting > 0
    /\ FetchSemFree(tRunning)
    /\ tWaiting' = tWaiting - 1
    /\ tRunning' = tRunning + 1
    /\ UNCHANGED <<tUnseen, tDone>>
    /\ PoolFrame

\* a fetch returns, the loop pops its task and start_fetch creates a task
\* for each of the k dependencies it names that were not seen before
FetchPoolComplete(k) ==
    /\ tRunning > 0
    /\ k <= tUnseen
    /\ tRunning' = tRunning - 1
    /\ tUnseen' = tUnseen - k
    /\ tWaiting' = tWaiting + k
    /\ UNCHANGED tDone
    /\ PoolFrame

NextFetchPool ==
    \/ FetchPoolAcquire
    \/ \E k \in 0..MaxGraph : FetchPoolComplete(k)

SpecFetchPool == FetchPoolInit /\ [][NextFetchPool]_vars

(***************************************************************************)
(* cli.py: cmd_add, from the end of the crawl to the writing phase         *)
(***************************************************************************)

\* how the crawl can leave one package: in packages_to_add with wheels (and
\* the mapping name, when the service returned one), in packages_to_add by
\* the mapping fallback, or in needs_input (the mapping lookup returns None
\* for an unmapped name and whenever the service cannot be reached)
AddCrawlOutcomes(p) ==
    {"wheels", "needs"} \cup
    (IF CondaMapping(p) # Null THEN {"wheels_cf", "cf"} ELSE {})

CrawlResults ==
    UNION {{f \in [S -> {"wheels", "wheels_cf", "cf", "needs"}] :
               \A p \in S : f[p] \in AddCrawlOutcomes(p)} : S \in SUBSET Packages}

\* the orders in which a set of packages can stand in a list
Orders(S) ==
    {o \in UNION {[1..n -> S] : n \in {Cardinality(S)}} :
        \A i, j \in DOMAIN o : i # j => o[i] # o[j]}

\* what the operator can answer to _prompt_for_package
PromptAnswers == {"map", "empty", "abort"}

\* total_to_add == 0 fails and dry_run is not set: the files are written
MayWrite_IgnoreDryRun(todo, dry) == DOMAIN todo # {}

MayWrite(todo, dry) == DOMAIN todo # {} /\ ~dry

\* the frame of a cmd_add step that ends the verb or only moves it on
AddFrame ==
    UNCHANGED <<durable, attempts, seenFailed, errLog, crashes, failedRun,
                convertedRun, crawlVars, poolVars, pureVars>>

\* asyncio.run(_add_packages_async(...)) returned packages_to_add and
\* needs_input; without --force no declared package is among them
AddCrawled(res, order, frc, nonint, dry) ==
    /\ cmd = "idle"
    /\ frc \/ \A p \in DOMAIN res : ~declFile[p].exists
    /\ order \in Orders({p \in DOMAIN res : res[p] = "needs"})
    /\ cmd' = "add"
    /\ pc' = "add_resolve"
    /\ dryRun' = dry
    /\ nonInteractive' = nonint
    /\ addTodo' = [p \in {q \in DOMAIN res : res[q] # "needs"} |-> res[p]]
    /\ addNeeds' = order
    /\ endCause' = "none"
    /\ unattempted' = {}
    /\ exitCode' = "none"
    /\ UNCHANGED <<durable, pkgs, curPkg, pending, mem, tasks, savePkg, saveRet,
                   attempts, attempted, runPending, seenFailed, errLog, crashes,
                   failedRun, convertedRun, crawlVars, poolVars, pureVars>>

\* the verb returns code: nothing of it is left
AddReturn(cause, code) ==
    /\ Terminate(cause, attempted)
    /\ addNeeds' = <<>>
    /\ nonInteractive' = FALSE
    /\ exitCode' = code
    /\ AddFrame

\* if needs_input: if non_interactive: ... "No files were written", return 1
AddNeedsInputFails ==
    /\ cmd = "add"
    /\ pc = "add_resolve"
    /\ addNeeds # <<>>
    /\ nonInteractive
    /\ AddReturn("add_needs_input", "1")

\* one round of `for info in needs_input`: the operator's answer
AddPrompt(answer) ==
    /\ cmd = "add"
    /\ pc = "add_resolve"
    /\ addNeeds # <<>>
    /\ ~nonInteractive
    /\ IF answer = "abort"
       THEN AddReturn("add_abort", "1")
       ELSE /\ addTodo' = [p \in DOMAIN addTodo \cup {Head(addNeeds)} |->
                             IF p = Head(addNeeds)
                             THEN (IF answer = "map" THEN "cf" ELSE "empty")
                             ELSE addTodo[p]]
            /\ addNeeds' = Tail(addNeeds)
            /\ UNCHANGED <<cmd, pc, dryRun, pkgs, curPkg, pending, mem, tasks,
                           savePkg, saveRet, attempted, runPending, endCause,
                           unattempted, nonInteractive, exitCode>>
            /\ AddFrame

\* every prompt is answered: "No new packages to add" or the dry-run
\* listing, return 0
AddNothingWritten ==
    /\ cmd = "add"
    /\ pc = "add_resolve"
    /\ addNeeds = <<>>
    /\ ~MayWrite(addTodo, dryRun)
    /\ AddReturn(IF DOMAIN addTodo = {} THEN "add_nothing" ELSE "add_dry_run", "0")

\* "Writing package files..."
AddBeginWrite ==
    /\ cmd = "add"
    /\ pc = "add_resolve"
    /\ addNeeds = <<>>
    /\ MayWrite(addTodo, dryRun)
    /\ pc' = "add_write"
    /\ UNCHANGED <<cmd, dryRun, pkgs, curPkg, pending, mem, tasks, savePkg,
                   saveRet, addTodo, attempted, runPending, endCause,
                   unattempted, addNeeds, nonInteractive, exitCode>>
    /\ AddFrame

\* a converted wheel b1 of a package pb that was added and synced earlier
PriorState == SetItem(EmptyMap, "b1", ConvertedState("b1"))

\* the directories are empty, or hold pb from an earlier add and sync
AddInit ==
    /\ \E prior \in BOOLEAN :
          /\ declFile = [p \in Packages |->
                           IF prior /\ p = "pb" THEN DeclFor("pb", "wheels_cf")
                           ELSE NoDecl]
          /\ fs = [x \in Paths |->
                     IF prior /\ x = StatePath("pb") THEN Doc(DumpData(PriorState))
                     ELSE NoFile]
          /\ chan = [x \in ChanPaths |->
                       IF prior /\ x = OutputPath("b1") THEN "complete" ELSE "none"]
    /\ InitProc
    /\ PureIdle
    /\ CrawlIdle
    /\ PoolIdle

NextAdd ==
    \/ \E res \in CrawlResults, frc \in BOOLEAN, nonint \in BOOLEAN, dry \in BOOLEAN :
          \E order \in Orders({p \in DOMAIN res : res[p] = "needs"}) :
             AddCrawled(res, order, frc, nonint, dry)
    \/ AddNeedsInputFails
    \/ \E answer \in PromptAnswers : AddPrompt(answer)
    \/ AddNothingWritten
    \/ AddBeginWrite
    \/ \E p \in Packages : AddWriteMapping(p)
    \/ \E p \in Packages : AddWritePackage(p)
    \/ \E p \in Packages : AddEmptyOpen(p)
    \/ AddEmptyWrite
    \/ AddFinish
    \/ SaveOpen
    \/ SaveDump
    \/ SaveReplace

SpecAdd == AddInit /\ [][NextAdd]_vars

(***************************************************************************)
(* cli.py: _add_packages_async, the crawl                                  *)
(***************************************************************************)

\* most dependencies (required plus optional) one package names
MaxDeps == 2

\* package names are sequences of characters
NameAB == <<"a", "-", "b">>

NameC == <<"c">>

NameD == <<"d">>

\* the packages of the index, by normalized name, in sorted() order
NodeOrder == <<NameAB, NameC, NameD>>

Nodes == {NameAB, NameC, NameD}

\* what list_packages(packages_dir) may hold when `add` starts
ExistingChoices == {{}, {NameC}, {NameAB}}

\* names the operator may pass to `add`
RootNames == {<<"A", "_", "b">>, NameAB}

\* str.lower() on one character
Lower(c) == IF c = "A" THEN "a" ELSE IF c = "B" THEN "b" ELSE c

Normalize_LowerOnly(name) == [i \in DOMAIN name |-> Lower(name[i])]

\* pkg.lower().replace("_", "-")
Normalize(name) ==
    [i \in DOMAIN name |-> IF name[i] = "_" THEN "-" ELSE Lower(name[i])]

\* the conda name the mapping service knows for a package, if any
Mapping(name) == IF name = NameC THEN "conda-c" ELSE Null

\* what one fetch can end with: package info without error and with the
\* dependency names read from the wheels' metadata; package info with an
\* error (not on the index, no release, no pure wheel); an exception
\* (network failure, a non-404 status, an unparsable requirement)
Outcomes ==
    {[kind |-> "ok", required |-> r, optional |-> o] :
        <<r, o>> \in {x \in (SUBSET Nodes) \X (SUBSET Nodes) :
                        Cardinality(x[1]) + Cardinality(x[2]) <= MaxDeps}}
    \cup {[kind |-> k, required |-> {}, optional |-> {}] : k \in {"error", "raise"}}

NoOutcome == [kind |-> "none", required |-> {}, optional |-> {}]

\* sorted(S)
Sorted(S) == LET In(n) == n \in S IN SelectSeq(NodeOrder, In)

AllDeps_RequiredOnly(info) == info.required_deps

\* all_deps = info.required_deps | info.optional_deps
AllDeps(info) == info.required_deps \cup info.optional_deps

\* the spelling of a name under which the index knows the package
Canon(name) ==
    [i \in DOMAIN name |->
        IF name[i] \in {"_", "-"} THEN "-"
        ELSE IF name[i] = "A" THEN "a" ELSE IF name[i] = "B" THEN "b" ELSE name[i]]

start_fetch_IgnoreExisting(c, pkg) ==
    LET normalized == Normalize(pkg) IN
      IF normalized \in c.seen THEN c
      ELSE [seen |-> c.seen \cup {normalized},
            active |-> [x \in DOMAIN c.active \cup {pkg} |->
                          IF x = pkg THEN [st |-> "waiting", out |-> NoOutcome]
                          ELSE c.active[x]],
            dispatched |-> [c.dispatched EXCEPT ![Canon(pkg)] = @ + 1]]

\* start_fetch(pkg, cons, req_by) on the crawl state c = [seen, active,
\* dispatched]
start_fetch(c, pkg) ==
    LET normalized == Normalize(pkg) IN
      IF normalized \in c.seen THEN c
      ELSE IF normalized \in existing /\ ~force
           THEN [c EXCEPT !.seen = @ \cup {normalized}]
           ELSE [seen |-> c.seen \cup {normalized},
                 active |-> [x \in DOMAIN c.active \cup {pkg} |->
                               IF x = pkg THEN [st |-> "waiting", out |-> NoOutcome]
                               ELSE c.active[x]],
                 dispatched |-> [c.dispatched EXCEPT ![Canon(pkg)] = @ + 1]]

CrawlState == [seen |-> seen, active |-> active, dispatched |-> dispatched]

SetCrawlState(c) ==
    /\ seen' = c.seen
    /\ active' = c.active
    /\ dispatched' = c.dispatched

CrawlFrame ==
    UNCHANGED <<durable, cmd, pc, dryRun, pkgs, curPkg, pending, mem, tasks,
                savePkg, saveRet, addTodo, attempts, attempted, runPending,
                endCause, unattempted, seenFailed, errLog, crashes, poolVars,
                cliVars, runOut, pureVars>>

\* the locals of _add_packages_async are set up: pending holds the root
CrawlInit ==
    /\ existing \in ExistingChoices
    /\ force \in BOOLEAN
    /\ \E root \in RootNames : queue = <<root>>
    /\ seen = {}
    /\ active = EmptySeqMap
    /\ packages_to_add = <<>>
    /\ needs_input = <<>>
    /\ crawlPc = "first"
    /\ dispatched = [n \in Nodes |-> 0]
    /\ declFile = [p \in Packages |-> NoDecl]
    /\ fs = [x \in Paths |-> NoFile]
    /\ chan = [x \in ChanPaths |-> "none"]
    /\ InitProc
    /\ PureIdle
    /\ PoolIdle

\* "Start initial package": start_fetch(package, constraint, None)
CrawlStartRoot ==
    /\ crawlPc = "first"
    /\ SetCrawlState(start_fetch(CrawlState, Head(queue)))
    /\ crawlPc' = "dispatch"
    /\ UNCHANGED <<existing, force, queue, packages_to_add, needs_input>>
    /\ CrawlFrame

\* while pending: pop(0) and start_fetch
Dispatch ==
    /\ crawlPc = "dispatch"
    /\ queue # <<>>
    /\ SetCrawlState(start_fetch(CrawlState, Head(queue)))
    /\ queue' = Tail(queue)
    /\ UNCHANGED <<existing, force, packages_to_add, needs_input, crawlPc>>
    /\ CrawlFrame

\* pending is empty: leave the loop when no task is active, else wait
DispatchEnd ==
    /\ crawlPc = "dispatch"
    /\ queue = <<>>
    /\ crawlPc' = IF DOMAIN active = {} THEN "done" ELSE "wait"
    /\ UNCHANGED <<seen, existing, force, queue, active, packages_to_add,
                   needs_input, dispatched>>
    /\ CrawlFrame

Fetching == {x \in DOMAIN active : active[x].st = "running"}

\* fetch_wrapper: async with semaphore
FetchAcquire(pkg) ==
    /\ crawlPc = "wait"
    /\ pkg \in DOMAIN active
    /\ active[pkg].st = "waiting"
    /\ FetchSemFree(Cardinality(Fetching))
    /\ active' = [active EXCEPT ![pkg].st = "running"]
    /\ UNCHANGED <<seen, existing, force, queue, packages_to_add, needs_input,
                   crawlPc, dispatched>>
    /\ CrawlFrame

\* _fetch_single_package returns or raises; the semaphore is released
FetchComplete(pkg, out) ==
    /\ crawlPc = "wait"
    /\ pkg \in DOMAIN active
    /\ active[pkg].st = "running"
    /\ active' = [active EXCEPT ![pkg] = [st |-> "finished", out |-> out]]
    /\ UNCHANGED <<seen, existing, force, queue, packages_to_add, needs_input,
                   crawlPc, dispatched>>
    /\ CrawlFrame

\* asyncio.wait(..., FIRST_COMPLETED) returns the tasks that are done
Wake ==
    /\ crawlPc = "wait"
    /\ \E x \in DOMAIN active : active[x].st = "finished"
    /\ active' = [x \in DOMAIN active |->
                    IF active[x].st = "finished"
                    THEN [active[x] EXCEPT !.st = "taken"] ELSE active[x]]
    /\ crawlPc' = "process"
    /\ UNCHANGED <<seen, existing, force, queue, packages_to_add, needs_input,
                   dispatched>>
    /\ CrawlFrame

InfoOf_NoMapping(pkg, out) ==
    [name |-> Normalize(pkg), error |-> out.kind = "error",
     conda_forge |-> Null,
     required_deps |-> out.required, optional_deps |-> out.optional]

\* the PackageInfo a fetch of pkg that did not raise returned
InfoOf(pkg, out) ==
    [name |-> Normalize(pkg), error |-> out.kind = "error",
     conda_forge |-> Mapping(Normalize(pkg)),
     required_deps |-> out.required, optional_deps |-> out.optional]

\* info.wheels is not empty: every PackageInfo with an error has wheels=[],
\* the one without has the pure wheels that were selected
HasWheels(info) == ~info.error

\* _write_package_files(info): the declaration it writes (whether it has a
\* wheels list, and its conda_forge line)
WrittenDecl(info) ==
    [wheels |-> HasWheels(info),
     conda_forge |-> IF Truthy(info.conda_forge) THEN info.conda_forge ELSE Null]

\* _write_package_files(info): whether save_state is called
WritesStateFile(info) == HasWheels(info)

\* the deps of an Ok node that are appended to pending
ToEnqueue(info) == Sorted({dep \in AllDeps(info) : Normalize(dep) \notin seen})

\* one round of `for task in done`
ProcessDone(pkg) ==
    /\ crawlPc = "process"
    /\ pkg \in DOMAIN active
    /\ active[pkg].st = "taken"
    /\ LET out == active[pkg].out
           info == InfoOf(pkg, out)
       IN /\ packages_to_add' =
               IF out.kind = "ok" \/ (out.kind = "error" /\ info.conda_forge # Null)
               THEN Append(packages_to_add, info) ELSE packages_to_add
          /\ needs_input' =
               IF out.kind = "error" /\ info.conda_forge = Null
               THEN Append(needs_input, info) ELSE needs_input
          /\ queue' = IF out.kind = "ok" THEN queue \o ToEnqueue(info) ELSE queue
    /\ active' = [x \in DOMAIN active \ {pkg} |-> active[x]]
    /\ crawlPc' = IF \E x \in DOMAIN active \ {pkg} : active[x].st = "taken"
                  THEN "process" ELSE "dispatch"
    /\ UNCHANGED <<seen, existing, force, dispatched>>
    /\ CrawlFrame

RawNames == RootNames \cup Nodes

NextCrawl ==
    \/ CrawlStartRoot
    \/ Dispatch
    \/ DispatchEnd
    \/ \E pkg \in RawNames : FetchAcquire(pkg)
    \/ \E pkg \in RawNames, out \in Outcomes : FetchComplete(pkg, out)
    \/ Wake
    \/ \E pkg \in RawNames : ProcessDone(pkg)

SpecCrawl == CrawlInit /\ [][NextCrawl]_vars

\* every fetch ends (the HTTP client times out) and the event loop runs
\* whatever is ready
FairSpecCrawl == SpecCrawl /\ WF_vars(NextCrawl)

(***************************************************************************)
(* state.py / sync.py / conda.py: dependency validation                    *)
(***************************************************************************)

\* most requirements one wheel's metadata lists
MaxReqs == 2

\* most wheels the validated package has
MaxValWheels == 2

\* requirement names as the wheel metadata spells them
ReqNames == {<<"A", "_", "b">>, NameC}

\* req.specifier as text; <<>> when the requirement has none
Specifiers == {<<>>, <<">", "=", "2">>}

\* the translated marker of a requirement (python <3); <<>> when the
\* requirement has no marker
Conditions == {<<>>, <<"p", "y", " ", "<", "3">>}

\* the requirements of the model: a bare name, a name with a version
\* specifier, a name with a marker
Requirements ==
    {r \in [name : ReqNames, specifier : Specifiers, condition : Conditions] :
        r.specifier = <<>> \/ r.condition = <<>>}

RECURSIVE SeqsUpTo(_, _)
\* the sequences over S of length at most n
SeqsUpTo(S, n) ==
    IF n = 0 THEN {<<>>}
    ELSE LET shorter == SeqsUpTo(S, n - 1) IN
         shorter \cup {Append(q, x) : q \in shorter, x \in S}

\* _requirement_to_conda_dep (requirements without extras)
_requirement_to_conda_dep(req) ==
    LET name == Normalize(req.name)
        withSpec == IF req.specifier # <<>>
                    THEN name \o <<" ">> \o req.specifier ELSE name
    IN  IF req.condition # <<>>
        THEN withSpec \o <<";", " ", "i", "f", " ">> \o req.condition
        ELSE withSpec

RECURSIVE Before(_, _)
\* s.split(ch)[0]
Before(s, ch) ==
    IF s = <<>> \/ Head(s) = ch THEN <<>>
    ELSE <<Head(s)>> \o Before(Tail(s), ch)

RECURSIVE LStrip(_)
LStrip(s) == IF s # <<>> /\ Head(s) = " " THEN LStrip(Tail(s)) ELSE s

RECURSIVE RStrip(_)
RStrip(s) ==
    IF s # <<>> /\ s[Len(s)] = " " THEN RStrip(SubSeq(s, 1, Len(s) - 1)) ELSE s

\* s.strip()
Strip(s) == RStrip(LStrip(s))

\* dep.split()[0]; <<>> when dep.split() is empty
FirstPart(dep) == Before(LStrip(dep), " ")

RECURSIVE ExtractRequired(_)
\* _extract_dependencies over conda dependency strings
ExtractRequired(deps) ==
    IF deps = <<>> THEN <<>>
    ELSE LET name == FirstPart(Head(deps)) IN
         IF name # <<>> /\ name # <<"p", "y", "t", "h", "o", "n">>
         THEN <<name>> \o ExtractRequired(Tail(deps))
         ELSE ExtractRequired(Tail(deps))

\* what sync records for a converted wheel with the requirements reqs:
\* _convert_dependencies, then _extract_dependencies
SyncedRequired(reqs) ==
    ExtractRequired([i \in DOMAIN reqs |-> _requirement_to_conda_dep(reqs[i])])

\* dep.split("[")[0].split("<")[0].split(">")[0].split("=")[0].strip()
dep_name(dep) == Strip(Before(Before(Before(Before(dep, "["), "<"), ">"), "="))

RECURSIVE validate_dependencies(_, _)
validate_dependencies(required, packages) ==
    IF required = <<>> THEN <<>>
    ELSE LET name == dep_name(Head(required))
             rest == validate_dependencies(Tail(required), packages)
         IN  IF Normalize(name) \notin packages THEN <<name>> \o rest ELSE rest

\* the wheel validate_all_dependencies looks at: the first one of the state
\* file that is converted; 0 when there is none
FirstConverted(state) ==
    IF \E i \in DOMAIN state : state[i].status = "converted"
    THEN CHOOSE i \in DOMAIN state :
            /\ state[i].status = "converted"
            /\ \A j \in 1..(i - 1) : state[j].status # "converted"
    ELSE 0

\* validate_all_dependencies, for one package: the names reported missing
\* (the package is left out of the results when there are none)
validate_all_dependencies(state, packages) ==
    LET i == FirstConverted(state) IN
    IF i = 0 THEN <<>>
    ELSE validate_dependencies(state[i].required, packages)

\* a wheel of the validated package: converted by sync, or still pending as
\* `add` recorded it (with the dependency names `add` extracted)
ValWheels ==
    {[status |-> "converted", reqs |-> q] : q \in SeqsUpTo(Requirements, MaxReqs)}
    \cup {[status |-> "pending", reqs |-> <<[name |-> NameD, specifier |-> <<>>,
                                             condition |-> <<>>]>>]}

\* everything the evaluation of a single function leaves alone
programVars == <<durable, cmd, pc, dryRun, pkgs, curPkg, pending, mem, tasks,
                 savePkg, saveRet, addTodo, attempts, attempted, runPending,
                 endCause, unattempted, seenFailed, errLog, crashes,
                 crawlVars, poolVars, cliVars, runOut>>

\* no verb is running and the directories are empty
ProgramIdle ==
    /\ declFile = [p \in Packages |-> NoDecl]
    /\ fs = [x \in Paths |-> NoFile]
    /\ chan = [x \in ChanPaths |-> "none"]
    /\ InitProc
    /\ CrawlIdle
    /\ PoolIdle

ValInit ==
    /\ ProgramIdle
    /\ vPackages \in SUBSET {Normalize(n) : n \in ReqNames}
    /\ vWheels \in SeqsUpTo(ValWheels, MaxValWheels) \ {<<>>}
    /\ vState = <<>>
    /\ vMissing = <<>>
    /\ vPc = "declared"
    /\ oTasks = EmptyMap
    /\ MarkerIdle

\* sync and add have run: the state file holds one record per wheel
ValSync ==
    /\ vPc = "declared"
    /\ vState' = [i \in DOMAIN vWheels |->
                    [status |-> vWheels[i].status,
                     required |-> IF vWheels[i].status = "converted"
                                  THEN SyncedRequired(vWheels[i].reqs)
                                  ELSE [k \in DOMAIN vWheels[i].reqs |->
                                          Normalize(vWheels[i].reqs[k].name)]]]
    /\ vPc' = "synced"
    /\ UNCHANGED <<vPackages, vWheels, vMissing, oTasks, markerVars, laterVars>>
    /\ UNCHANGED programVars

\* cart-wheel validate
ValValidate ==
    /\ vPc = "synced"
    /\ vMissing' = validate_all_dependencies(vState, vPackages)
    /\ vPc' = "validated"
    /\ UNCHANGED <<vPackages, vWheels, vState, oTasks, markerVars, laterVars>>
    /\ UNCHANGED programVars

NextValidate == ValSync \/ ValValidate

SpecValidate == ValInit /\ [][NextValidate]_vars

(***************************************************************************)
(* sync.py / conda.py: the output paths of the wheel tasks of one run      *)
(***************************************************************************)

\* most wheels declared and pending when the run starts
MaxDeclared == 3

\* the compatibility tags of a wheel filename: python-abi-platform
WheelTags == {"py3-none-any", "cp311-cp311-linux_x86_64", "cp311-cp311-win_amd64"}

\* declared wheel filenames, as parse_wheel_filename splits them
WheelFiles == [dist : Packages, version : {"1", "2"}, tags : WheelTags]

\* conda_name = f"{conda_name}-{version}-py_0.conda", the parts kept apart
conda_file(f) == <<f.dist, f.version, "py_0", "conda">>

\* conda_path = output_dir / "noarch" / conda_name
conda_path(f) == <<"noarch", conda_file(f)>>

\* the tasks inside run_in_executor(_download_and_convert_wheel)
InFlight == {f \in DOMAIN oTasks : oTasks[f] = "converting"}

\* sync_all_async has created one task per pending wheel
OutInit ==
    /\ ProgramIdle
    /\ vPackages = {}
    /\ vWheels = <<>>
    /\ vState = <<>>
    /\ vMissing = <<>>
    /\ vPc = "idle"
    /\ MarkerIdle
    /\ \E declared \in SUBSET WheelFiles :
          /\ Cardinality(declared) <= MaxDeclared
          /\ oTasks = [f \in declared |-> "waiting"]

\* async with semaphore; the conversion starts in the thread pool
OutAcquire(f) ==
    /\ f \in DOMAIN oTasks
    /\ oTasks[f] = "waiting"
    /\ SyncSemFree(Cardinality(InFlight))
    /\ oTasks' = [oTasks EXCEPT ![f] = "converting"]
    /\ UNCHANGED <<programVars, valVars, markerVars, laterVars>>

\* convert_wheel has closed the archive at conda_path
OutConverted(f) ==
    /\ f \in DOMAIN oTasks
    /\ oTasks[f] = "converting"
    /\ oTasks' = [oTasks EXCEPT ![f] = "done"]
    /\ UNCHANGED <<programVars, valVars, markerVars, laterVars>>

NextOutput ==
    \/ \E f \in WheelFiles : OutAcquire(f)
    \/ \E f \in WheelFiles : OutConverted(f)

SpecOutput == OutInit /\ [][NextOutput]_vars

(***************************************************************************)
(* sync.py: one asynchronous sync that is left to run                      *)
(***************************************************************************)

\* the record of a1 when the run starts: as `add` wrote it, or failed
\* `retries` times in earlier runs
EarlierState(retries) ==
    IF retries = 0 THEN AddedStates(PyPIWheels["pa"])
    ELSE SetItem(AddedStates(PyPIWheels["pa"]), "a1",
                 [WheelState("failed") EXCEPT !.error = "E_pypi",
                                              !.retry_count = retries])

\* pa is declared with a1 and a2 pending, pb may be declared with b1 pending
AsyncRunDirs ==
    /\ \E both \in BOOLEAN, retries \in 0..(RetryCeiling - 1) :
          /\ declFile = [p \in Packages |->
                           IF p = "pa" THEN DeclFor("pa", "wheels")
                           ELSE IF both THEN DeclFor("pb", "wheels_cf") ELSE NoDecl]
          /\ fs = [x \in Paths |->
                     IF x = StatePath("pa") THEN Doc(DumpData(EarlierState(retries)))
                     ELSE IF both /\ x = StatePath("pb")
                          THEN Doc(DumpData(AddedStates(PyPIWheels["pb"])))
                          ELSE NoFile]
    /\ chan = [x \in ChanPaths |-> "none"]
    /\ InitProc
    /\ CrawlIdle
    /\ PoolIdle

AsyncRunInit == AsyncRunDirs /\ PureIdle

\* cart-wheel sync, when the attempts the run can make are within the bound
AsyncRunStart ==
    /\ SumOver(attempts, Wheels) + Cardinality(AllPendingOnDisk) <= MaxAttempts
    /\ AsyncStart(FALSE)

NextAsyncRun ==
    \/ AsyncRunStart
    \/ \E w \in Wheels : TaskAcquire(w)
    \/ \E w \in Wheels, res \in {"ok", "E_pypi", "E_exc"} : TaskFinish(w, res)
    \/ \E w \in Wheels : ProcessOk(w)
    \/ \E w \in Wheels : ProcessFail(w)
    \/ SaveOpen
    \/ SaveDump
    \/ SaveReplace
    \/ AsyncFinish

SpecAsyncRun == AsyncRunInit /\ [][NextAsyncRun]_vars

\* the event loop runs whatever is ready, every request ends (the HTTP
\* clients have timeouts) and the process is not stopped
FairSpecAsyncRun == SpecAsyncRun /\ WF_vars(NextAsyncRun)

(***************************************************************************)
(* conda.py: marker translation                                            *)
(***************************************************************************)

\* most comparisons one marker holds
MaxTerms == 3

\* a comparison of the marker tree: (variable, op, value)
Atom(variable, op, value) ==
    [k |-> "atom", variable |-> variable, op |-> op, value |-> value]

\* a boolean operator of the marker tree: "and" / "or"
BoolOp(word) == [k |-> "op", word |-> word]

\* a parenthesised group of the marker tree: a nested list
Sub(items) == [k |-> "sub", items |-> items]

\* the comparisons of the model
Atoms ==
    {Atom("implementation_name", "==", "CPython"),
     Atom("platform_python_implementation", "==", "PyPy"),
     Atom("python_version", "<", "3.11"),
     Atom("sys_platform", "==", "win32"),
     Atom("platform_system", "==", "Linux"),
     Atom("platform_version", ">=", "10.0"),
     Atom("platform_machine", "==", "x86_64")}

BoolOps == {"and", "or"}

RECURSIVE FlatTrees(_)
\* the marker lists without groups that hold at most n comparisons
FlatTrees(n) ==
    IF n = 0 THEN {}
    ELSE {<<a>> : a \in Atoms}
         \cup {<<a, BoolOp(o)>> \o t :
                 a \in Atoms, o \in BoolOps, t \in FlatTrees(n - 1)}

\* how many comparisons an item holds
Weight(item) == IF item.k = "sub" THEN (Len(item.items) + 1) \div 2 ELSE 1

RECURSIVE Trees(_)
\* the marker lists, groups included, that hold at most n comparisons
Trees(n) ==
    IF n = 0 THEN {}
    ELSE LET firsts == Atoms \cup {Sub(t) : t \in FlatTrees(n)} IN
         {<<f>> : f \in firsts}
         \cup UNION {{<<f, BoolOp(o)>> \o t :
                        o \in BoolOps, t \in Trees(n - Weight(f))} :
                     f \in {g \in firsts : Weight(g) < n}}

_PLATFORM_MAP(value) ==
    IF value \in {"win32", "cygwin"} THEN "__win"
    ELSE IF value = "linux" THEN "__linux"
    ELSE IF value = "darwin" THEN "__osx" ELSE Null

_PLATFORM_SYSTEM_MAP(value) ==
    IF value = "Windows" THEN "__win"
    ELSE IF value = "Linux" THEN "__linux"
    ELSE IF value = "Darwin" THEN "__osx" ELSE Null

\* value.lower()
StrLower(value) ==
    IF value = "CPython" THEN "cpython"
    ELSE IF value = "PyPy" THEN "pypy" ELSE value

\* a returned string
Text(t) == [raised |-> FALSE, text |-> t]

\* DependencyConversionError
Raised == [raised |-> TRUE, text |-> ""]

_convert_marker_atom(variable, op, value) ==
    IF variable = "python_version" THEN Text("python " \o op \o value)
    ELSE IF variable = "sys_platform" /\ op \in {"==", "!="}
    THEN IF _PLATFORM_MAP(value) = Null THEN Raised
         ELSE IF op = "==" THEN Text(_PLATFORM_MAP(value))
         ELSE Text("not " \o _PLATFORM_MAP(value))
    ELSE IF variable = "platform_system" /\ op \in {"==", "!="}
    THEN IF _PLATFORM_SYSTEM_MAP(value) = Null THEN Raised
         ELSE IF op = "==" THEN Text(_PLATFORM_SYSTEM_MAP(value))
         ELSE Text("not " \o _PLATFORM_SYSTEM_MAP(value))
    ELSE IF variable = "os_name" /\ op = "==" /\ value = "nt" THEN Text("__win")
    ELSE IF variable = "os_name" /\ op = "==" /\ value = "posix" THEN Text("__unix")
    ELSE IF variable = "os_name" /\ op = "!=" /\ value = "nt" THEN Text("__unix")
    ELSE IF variable = "platform_version"
    THEN Text("__PLATFORM_VERSION__" \o op \o value)
    ELSE IF variable \in {"platform_python_implementation", "implementation_name"}
            /\ op \in {"==", "!="}
    THEN IF (op = "==") = (StrLower(value) = "cpython")
         THEN Text("__CPYTHON_ALWAYS") ELSE Text("__SKIP_DEP")
    ELSE Raised

RECURSIVE Join(_)
\* " ".join(parts)
Join(parts) ==
    IF parts = <<>> THEN ""
    ELSE IF Len(parts) = 1 THEN parts[1]
    ELSE parts[1] \o " " \o Join(Tail(parts))

\* the locals of _convert_marker_tree before its loop; positions count
\* from 1, 0 stands for None
NoScan ==
    [converted_items |-> <<>>, platform_flags |-> <<>>,
     platform_version_idx |-> 0, platform_version_value |-> "",
     has_skip_dep |-> FALSE, has_cpython_always |-> FALSE, raised |-> FALSE]


Classify_GroupKept(acc, converted, isVersion, versionValue, isGroup) ==
    IF converted.raised THEN [acc EXCEPT !.raised = TRUE]
    ELSE IF isGroup
    THEN [acc EXCEPT !.converted_items =
            Append(@, [type |-> "part", value |-> "(" \o converted.text \o ")"])]
    ELSE IF converted.text = "__SKIP_DEP" THEN [acc EXCEPT !.has_skip_dep = TRUE]
    ELSE [acc EXCEPT !.converted_items =
            Append(@, [type |-> "part", value |-> converted.text])]

\* what the loop does with one converted comparison or group
Classify(acc, converted, isVersion, versionValue, isGroup) ==
    IF converted.raised THEN [acc EXCEPT !.raised = TRUE]
    ELSE IF converted.text = "__SKIP_DEP" THEN [acc EXCEPT !.has_skip_dep = TRUE]
    ELSE IF converted.text = "__CPYTHON_ALWAYS"
    THEN [acc EXCEPT !.has_cpython_always = TRUE]
    ELSE IF isGroup
    THEN [acc EXCEPT !.converted_items =
            Append(@, [type |-> "part", value |-> "(" \o converted.text \o ")"])]
    ELSE IF converted.text \in {"__win", "__linux", "__osx", "__unix"}
    THEN [acc EXCEPT
            !.platform_flags = Append(@, Len(acc.converted_items) + 1),
            !.converted_items = Append(@, [type |-> "platform", value |-> converted.text])]
    ELSE IF isVersion
    THEN [acc EXCEPT
            !.platform_version_idx = Len(acc.converted_items) + 1,
            !.platform_version_value = versionValue,
            !.converted_items = Append(@, [type |-> "version", value |-> converted.text])]
    ELSE [acc EXCEPT !.converted_items =
            Append(@, [type |-> "part", value |-> converted.text])]

RECURSIVE KeptParts(_, _, _, _)
\* the second loop of the fusing branch, from position i on
KeptParts(items, i, skip_indices, combined) ==
    IF i > Len(items) THEN <<>>
    ELSE LET rest == KeptParts(items, i + 1, skip_indices, combined) IN
         IF i \in skip_indices.all
         THEN (IF i = skip_indices.flag THEN <<combined>> \o rest ELSE rest)
         ELSE <<items[i].value>> \o rest

\* the statements of _convert_marker_tree after its loop
Combine(acc) ==
    LET items == acc.converted_items IN
    IF acc.raised THEN Raised
    ELSE IF acc.has_skip_dep THEN Text("__SKIP_DEP")
    ELSE IF acc.has_cpython_always /\ Len(items) = 0 THEN Text("__CPYTHON_ALWAYS")
    ELSE IF acc.platform_version_idx # 0 /\ Len(acc.platform_flags) = 1
    THEN LET flag_idx == acc.platform_flags[1]
             version_idx == acc.platform_version_idx
             min_idx == IF flag_idx < version_idx THEN flag_idx ELSE version_idx
             max_idx == IF flag_idx < version_idx THEN version_idx ELSE flag_idx
             between == {i \in (min_idx + 1)..(max_idx - 1) : items[i].type = "op"}
             firstOp == {i \in between : \A j \in between : i <= j}
         IN  Text(Join(KeptParts(items, 1,
                    [all |-> {flag_idx, version_idx} \cup firstOp, flag |-> flag_idx],
                    items[flag_idx].value \o " " \o acc.platform_version_value)))
    ELSE IF acc.platform_version_idx # 0 /\ Len(acc.platform_flags) = 0 THEN Raised
    ELSE IF \E i \in DOMAIN items : items[i].type = "version" THEN Raised
    ELSE Text(Join([i \in DOMAIN items |-> items[i].value]))

RECURSIVE _convert_marker_tree(_)
RECURSIVE ScanTree(_, _)
\* the loop of _convert_marker_tree; an exception ends it
ScanTree(tree, acc) ==
    IF tree = <<>> \/ acc.raised THEN acc
    ELSE LET item == Head(tree) IN
         ScanTree(Tail(tree),
            IF item.k = "sub"
            THEN Classify(acc, _convert_marker_tree(item.items), FALSE, "", TRUE)
            ELSE IF item.k = "op"
            THEN [acc EXCEPT !.converted_items =
                    Append(@, [type |-> "op", value |-> item.word])]
            ELSE Classify(acc, _convert_marker_atom(item.variable, item.op, item.value),
                          item.variable = "platform_version",
                          item.op \o item.value, FALSE))

_convert_marker_tree(tree) == Combine(ScanTree(tree, NoScan))

\* _convert_dependencies: what becomes of the requirement and its condition
ConditionOf(result) ==
    IF result.raised THEN [kind |-> "error", text |-> ""]
    ELSE IF result.text = "__SKIP_DEP" THEN [kind |-> "dropped", text |-> ""]
    ELSE IF result.text = "__CPYTHON_ALWAYS" THEN [kind |-> "unconditional", text |-> ""]
    ELSE [kind |-> "if", text |-> result.text]

MarkerInit ==
    /\ ProgramIdle
    /\ vPackages = {}
    /\ vWheels = <<>>
    /\ vState = <<>>
    /\ vMissing = <<>>
    /\ vPc = "idle"
    /\ oTasks = EmptyMap
    /\ mTree \in Trees(MaxTerms)
    /\ mResult = NoResult
    /\ mCondition = NoCondition
    /\ mPc = "parsed"
    /\ LaterIdle

\* _marker_to_condition(req.marker)
MarkerConvert ==
    /\ mPc = "parsed"
    /\ mResult' = _convert_marker_tree(mTree)
    /\ mPc' = "converted"
    /\ UNCHANGED <<mTree, mCondition, programVars, valVars, oTasks, laterVars>>

\* the handling of the special markers in _convert_dependencies
MarkerCondition ==
    /\ mPc = "converted"
    /\ mCondition' = ConditionOf(mResult)
    /\ mPc' = "done"
    /\ UNCHANGED <<mTree, mResult, programVars, valVars, oTasks, laterVars>>

NextMarker == MarkerConvert \/ MarkerCondition

SpecMarker == MarkerInit /\ [][NextMarker]_vars

(***************************************************************************)
(* sync.py: sync_all and sync_all_async on the same input                  *)
(***************************************************************************)

\* what happens to one wheel's attempt: converted; _find_wheel_url raises
\* PyPIError (404, wheel not listed); _find_wheel_url raises an httpx error
\* (connection failure, non-404 status); download or conversion raises
CmpOutcomes == {"ok", "E_pypi", "E_net", "E_exc"}

\* the wheels `add` lists; b2 is never declared here
CmpWheels == SeqSet(PyPIWheels["pa"]) \cup SeqSet(PyPIWheels["pb"])

\* the directories of AsyncRunInit, remembered, and an outcome per wheel
CmpInit ==
    /\ AsyncRunDirs
    /\ FunctionsIdle
    /\ ConvIdle
    /\ VerIdle
    /\ RtIdle
    /\ cStart = [decl |-> declFile, files |-> fs]
    /\ cPlan \in {f \in [Wheels -> CmpOutcomes] :
                     \A w \in Wheels \ CmpWheels : f[w] = "ok"}
    /\ cSeqFinal = <<>>
    /\ cPhase = "seq"

\* cart-wheel sync --quiet on the start directories
CmpSeqStart ==
    /\ cPhase = "seq"
    /\ endCause = "none"
    /\ SeqStart("all", FALSE)

CmpSeqLoadPackage == cPhase = "seq" /\ SeqLoadPackage

CmpSeqFinish == cPhase = "seq" /\ SeqFinish

\* the attempt on the next wheel of sync_package ends as planned
CmpSeqOk ==
    /\ cPhase = "seq" /\ pc = "loop" /\ pending # <<>>
    /\ cPlan[Head(pending)] = "ok"
    /\ SeqConvertOk

CmpSeqNotFound ==
    /\ cPhase = "seq" /\ pc = "loop" /\ pending # <<>>
    /\ cPlan[Head(pending)] = "E_pypi"
    /\ SeqLookupNotFound

CmpSeqLookupRaises ==
    /\ cPhase = "seq" /\ pc = "loop" /\ pending # <<>>
    /\ cPlan[Head(pending)] = "E_net"
    /\ SeqLookupRaises

CmpSeqConvertFails ==
    /\ cPhase = "seq" /\ pc = "loop" /\ pending # <<>>
    /\ cPlan[Head(pending)] = "E_exc"
    /\ SeqConvertFails("E_exc")

\* the sequential run is over: what it persisted is remembered, and the
\* directories and the process are put back to where the run started
CmpReset ==
    /\ cPhase = "seq"
    /\ cmd = "idle"
    /\ endCause # "none"
    /\ cSeqFinal' = [w \in Wheels |-> <<Status(w), Retry(w)>>]
    /\ cPhase' = "async"
    /\ declFile' = cStart.decl
    /\ fs' = cStart.files
    /\ chan' = [x \in ChanPaths |-> "none"]
    /\ cmd' = "idle"
    /\ pc' = "idle"
    /\ dryRun' = FALSE
    /\ pkgs' = <<>>
    /\ curPkg' = "none"
    /\ pending' = <<>>
    /\ mem' = NoMem
    /\ tasks' = [w \in Wheels |-> NoTask]
    /\ savePkg' = "none"
    /\ saveRet' = "idle"
    /\ addTodo' = EmptyMap
    /\ attempts' = [w \in Wheels |-> 0]
    /\ attempted' = {}
    /\ runPending' = {}
    /\ endCause' = "none"
    /\ unattempted' = {}
    /\ seenFailed' = [w \in Wheels |-> {}]
    /\ errLog' = NoErr
    /\ crashes' = 0
    /\ addNeeds' = <<>>
    /\ nonInteractive' = FALSE
    /\ failedRun' = {}
    /\ convertedRun' = {}
    /\ exitCode' = "none"
    /\ UNCHANGED <<cPlan, cStart>>
    /\ UNCHANGED <<crawlVars, poolVars, valVars, oTasks, markerVars, convVars,
                   verVars, rtVars>>

\* cart-wheel sync on the start directories
CmpAsyncStart ==
    /\ cPhase = "async"
    /\ endCause = "none"
    /\ AsyncStart(FALSE)

\* _sync_single_wheel returns what the plan says: except PyPIError gives the
\* lookup's message, except Exception covers the httpx error of the lookup
\* as well as a failed download or conversion
CmpTaskResult(w) == IF cPlan[w] = "E_net" THEN "E_exc" ELSE cPlan[w]

CmpTaskFinish(w) == cPhase = "async" /\ TaskFinish(w, CmpTaskResult(w))

NextCompare ==
    \/ CmpSeqStart
    \/ CmpSeqLoadPackage
    \/ CmpSeqOk
    \/ CmpSeqNotFound
    \/ CmpSeqLookupRaises
    \/ CmpSeqConvertFails
    \/ CmpSeqFinish
    \/ CmpReset
    \/ CmpAsyncStart
    \/ \E w \in Wheels : TaskAcquire(w)
    \/ \E w \in Wheels : CmpTaskFinish(w)
    \/ \E w \in Wheels : ProcessOk(w)
    \/ \E w \in Wheels : ProcessFail(w)
    \/ SaveOpen
    \/ SaveDump
    \/ SaveReplace
    \/ AsyncFinish

SpecCompare == CmpInit /\ [][NextCompare]_vars

(***************************************************************************)
(* conda.py, streaming.py: convert_wheel, one streaming pass               *)
(***************************************************************************)

\* how many ZIP entries a wheel has
MaxEntries == 4

\* file names are sequences of tokens, "/" being the separator
Slash == "/"

DistInfoName(file) == <<"d", ".dist-info", Slash, file>>

\* bytes are sequences of characters
CondaBytes == <<"c", "o", "n", "d", "a", "\n">>

PipBytes == <<"p", "i", "p", "\n">>

\* a ZIP entry as stream_unzip yields it: name, size from the local header
\* (None when the archive uses data descriptors), and the bytes of its chunks
ZipEntry(name, known, content) ==
    [file_name |-> name,
     file_size |-> IF known THEN Len(content) ELSE AbsentInt,
     content |-> content]

\* entries a wheel can hold: a module, a directory, METADATA, WHEEL, the wheel's own INSTALLER, a file of a vendored dist-info
ZipEntries ==
    {ZipEntry(<<"pkg", Slash, "__init__.py">>, k, <<"x">>) : k \in BOOLEAN}
    \cup {ZipEntry(<<"pkg", Slash>>, TRUE, <<>>)}
    \cup {ZipEntry(DistInfoName("METADATA"), TRUE, <<"M">>)}
    \cup {ZipEntry(DistInfoName("WHEEL"), TRUE, <<"W">>)}
    \cup {ZipEntry(DistInfoName("INSTALLER"), TRUE, PipBytes)}
    \cup {ZipEntry(<<"pkg", Slash, "v", ".dist-info", Slash, "METADATA">>,
                   TRUE, <<"V">>)}

\* hashlib.sha256(...).hexdigest(): distinct bytes, distinct digests
hexdigest(bytes) == <<"sha256", bytes>>

\* file_name.endswith("/")
EndsWithSlash(name) == name # <<>> /\ name[Len(name)] = Slash

\* ".dist-info/" in file_name
HasDistInfo(name) ==
    \E i \in 1..(Len(name) - 1) : name[i] = ".dist-info" /\ name[i + 1] = Slash

\* file_name.split("/")[0]
RECURSIVE FirstComponent(_)
FirstComponent(name) ==
    IF name = <<>> \/ Head(name) = Slash THEN <<>>
    ELSE <<Head(name)>> \o FirstComponent(Tail(name))

IsInstaller_Never(name) == FALSE

\* file_name.endswith("/INSTALLER")
IsInstaller(name) ==
    /\ Len(name) >= 2
    /\ name[Len(name) - 1] = Slash
    /\ name[Len(name)] = "INSTALLER"

\* f"site-packages/{file_name}"
DestPath(name) == <<"site-packages", Slash>> \o name

\* f"{dist_info_prefix}/METADATA" and the like
PrefixFile(prefix, file) == prefix \o <<Slash, file>>

FileMetadata(path, sha256, size) == [path |-> path, sha256 |-> sha256, size |-> size]

add_file_NoMetadata(writer, dest_path, content) ==
    [writer EXCEPT !._tar = Append(@, [name |-> dest_path, bytes |-> content])]

\* StreamingTarZstWriter.add_file
add_file(writer, dest_path, content) ==
    [_tar |-> Append(writer._tar, [name |-> dest_path, bytes |-> content]),
     _files |-> Append(writer._files,
                       FileMetadata(dest_path, hexdigest(content), Len(content)))]

\* what tarfile copies from the reader for a header of `size` bytes
ReadBytes(content, size) == SubSeq(content, 1, size)

\* StreamingTarZstWriter.add_stream: the hash is taken over what the tar
\* writer reads through HashingReader
add_stream(writer, dest_path, content, size) ==
    [_tar |-> Append(writer._tar,
                     [name |-> dest_path, bytes |-> ReadBytes(content, size)]),
     _files |-> Append(writer._files,
                       FileMetadata(dest_path, hexdigest(ReadBytes(content, size)),
                                    size))]

\* dist_info_prefix after the entry: fixed by the first name with a dist-info
DetectPrefix(prefix, name) ==
    IF prefix = NoPrefix /\ HasDistInfo(name) THEN FirstComponent(name)
    ELSE prefix

\* is_metadata
IsMetadataFile(prefix, name) ==
    /\ prefix # NoPrefix
    /\ name \in {PrefixFile(prefix, "METADATA"), PrefixFile(prefix, "WHEEL"),
                 PrefixFile(prefix, "entry_points.txt")}

\* buffered_metadata.get(name)
Buffered(name) ==
    IF name \in DOMAIN buffered_metadata THEN buffered_metadata[name] ELSE <<>>

\* convert_wheel is called on a wheel; the output directory may hold the
\* file of an earlier conversion
ConvInit ==
    /\ cvEntries \in SeqsUpTo(ZipEntries, MaxEntries)
    /\ cvPos = 1
    /\ cvDepsRaise \in BOOLEAN
    /\ dist_info_prefix = NoPrefix
    /\ buffered_metadata = NoBuffered
    /\ pkg_writer = NewWriter
    /\ file_metadata = <<>>
    /\ pkg_tmp = "none"
    /\ cvOut \in {NoConda, OldConda}
    /\ cvPc = "start"
    /\ ProgramIdle
    /\ FunctionsIdle
    /\ CmpIdle
    /\ VerIdle
    /\ RtIdle

convFrame == <<programVars, valVars, oTasks, markerVars, cmpVars, verVars, rtVars>>

Unlink_Keep(tmp) == tmp

\* finally: pkg_tmp_path.unlink(missing_ok=True)
Unlink(tmp) == "deleted"

\* an exception leaves convert_wheel through the finally clause
ConvRaise(error) ==
    /\ cvPc' = error
    /\ pkg_tmp' = Unlink(pkg_tmp)

\* tempfile.NamedTemporaryFile(delete=False), open(pkg_tmp_path, "wb")
ConvOpenTemp ==
    /\ cvPc = "start"
    /\ pkg_tmp' = "exists"
    /\ cvPc' = "stream"
    /\ UNCHANGED <<cvEntries, cvPos, cvDepsRaise, dist_info_prefix,
                   buffered_metadata, pkg_writer, file_metadata, cvOut>>
    /\ UNCHANGED convFrame

\* one iteration of `for ... in stream_unzip(chunks)`
ConvEntry ==
    /\ cvPc = "stream"
    /\ cvPos <= Len(cvEntries)
    /\ LET entry == cvEntries[cvPos]
           file_name == entry.file_name
           prefix == DetectPrefix(dist_info_prefix, file_name)
           dest_path == DestPath(file_name)
       IN IF EndsWithSlash(file_name)
          THEN UNCHANGED <<dist_info_prefix, buffered_metadata, pkg_writer>>
          ELSE /\ dist_info_prefix' = prefix
               /\ IF IsInstaller(file_name)
                  THEN UNCHANGED <<buffered_metadata, pkg_writer>>
                  ELSE IF IsMetadataFile(prefix, file_name)
                  THEN /\ buffered_metadata' =
                            [n \in DOMAIN buffered_metadata \cup {file_name} |->
                               IF n = file_name THEN entry.content
                               ELSE buffered_metadata[n]]
                       /\ pkg_writer' = add_file(pkg_writer, dest_path, entry.content)
                  ELSE /\ UNCHANGED buffered_metadata
                       /\ pkg_writer' =
                            IF entry.file_size # AbsentInt
                            THEN add_stream(pkg_writer, dest_path, entry.content,
                                            entry.file_size)
                            ELSE add_file(pkg_writer, dest_path, entry.content)
    /\ cvPos' = cvPos + 1
    /\ UNCHANGED <<cvEntries, cvDepsRaise, file_metadata, pkg_tmp, cvOut, cvPc>>
    /\ UNCHANGED convFrame

\* after the loop: no dist-info was seen
ConvNoDistInfo ==
    /\ cvPc = "stream"
    /\ cvPos > Len(cvEntries)
    /\ dist_info_prefix = NoPrefix
    /\ ConvRaise("no_dist_info")
    /\ UNCHANGED <<cvEntries, cvPos, cvDepsRaise, dist_info_prefix,
                   buffered_metadata, pkg_writer, file_metadata, cvOut>>
    /\ UNCHANGED convFrame

\* after the loop: the INSTALLER is added, the metadata is taken, the writer
\* is closed
ConvAddInstaller ==
    /\ cvPc = "stream"
    /\ cvPos > Len(cvEntries)
    /\ dist_info_prefix # NoPrefix
    /\ LET closing == add_file(pkg_writer,
                               DestPath(PrefixFile(dist_info_prefix, "INSTALLER")),
                               CondaBytes)
       IN /\ pkg_writer' = closing
          /\ file_metadata' = closing._files
    /\ cvPc' = "packed"
    /\ UNCHANGED <<cvEntries, cvPos, cvDepsRaise, dist_info_prefix,
                   buffered_metadata, pkg_tmp, cvOut>>
    /\ UNCHANGED convFrame

\* if not metadata_content or not wheel_content
MissingMetadata ==
    \/ Buffered(PrefixFile(dist_info_prefix, "METADATA")) = <<>>
    \/ Buffered(PrefixFile(dist_info_prefix, "WHEEL")) = <<>>

ConvMissingMetadata ==
    /\ cvPc = "packed"
    /\ MissingMetadata
    /\ ConvRaise("missing_metadata")
    /\ UNCHANGED <<cvEntries, cvPos, cvDepsRaise, dist_info_prefix,
                   buffered_metadata, pkg_writer, file_metadata, cvOut>>
    /\ UNCHANGED convFrame

\* _convert_dependencies raises DependencyConversionError
ConvDepsRaise ==
    /\ cvPc = "packed"
    /\ ~MissingMetadata
    /\ cvDepsRaise
    /\ ConvRaise("marker")
    /\ UNCHANGED <<cvEntries, cvPos, cvDepsRaise, dist_info_prefix,
                   buffered_metadata, pkg_writer, file_metadata, cvOut>>
    /\ UNCHANGED convFrame

\* paths.json from file_metadata
PathsJson(metadata) ==
    [i \in DOMAIN metadata |->
       [_path |-> metadata[i].path, path_type |-> "hardlink",
        sha256 |-> metadata[i].sha256, size_in_bytes |-> metadata[i].size]]

\* the info archive is built, the .conda file is written with the pkg
\* archive copied from the temp file, the result is returned
ConvWrite ==
    /\ cvPc = "packed"
    /\ ~MissingMetadata
    /\ ~cvDepsRaise
    /\ cvOut' = [kind |-> "new", paths |-> PathsJson(file_metadata),
                 pkg |-> pkg_writer._tar]
    /\ cvPc' = "returned"
    /\ pkg_tmp' = Unlink(pkg_tmp)
    /\ UNCHANGED <<cvEntries, cvPos, cvDepsRaise, dist_info_prefix,
                   buffered_metadata, pkg_writer, file_metadata>>
    /\ UNCHANGED convFrame

NextConvert ==
    \/ ConvOpenTemp
    \/ ConvEntry
    \/ ConvNoDistInfo
    \/ ConvAddInstaller
    \/ ConvMissingMetadata
    \/ ConvDepsRaise
    \/ ConvWrite

SpecConvert == ConvInit /\ [][NextConvert]_vars

(***************************************************************************)
(* pypi.py: get_matching_versions, get_matching_versions_async             *)
(***************************************************************************)

\* how many releases a package has; the largest max_versions asked for
MaxReleases == 3

MaxCap == 2

\* versions are 1..MaxReleases, a larger number being a newer version
PyPIRelease(version, yanked) == [version |-> version, yanked |-> yanked]

\* get_package_releases: the releases with wheels, newest first
RECURSIVE Descending(_, _)
Descending(vs, yanked) ==
    IF vs = {} THEN <<>>
    ELSE LET top == CHOOSE v \in vs : \A u \in vs : u <= v
         IN <<PyPIRelease(top, top \in yanked)>> \o Descending(vs \ {top}, yanked)

ReleaseLists ==
    {Descending(vs, y) : vs \in SUBSET (1..MaxReleases), y \in SUBSET (1..MaxReleases)}

\* constraints are ">=c"; Version(release.version) in specifier
InSpecifier(version, constraint) == version >= constraint

\* the two tests at the top of the loop body: the release is passed over
SkipRelease(release, constraint, include_yanked) ==
    \/ release.yanked /\ ~include_yanked
    \/ ~InSpecifier(release.version, constraint)

\* max_versions is not None and count >= max_versions
CapReached(max_versions, count) ==
    max_versions # AbsentInt /\ count >= max_versions

\* get_matching_versions_async: the loop over releases, result so far
RECURSIVE MatchLoop(_, _, _, _, _)
MatchLoop(releases, constraint, max_versions, include_yanked, result) ==
    IF releases = <<>> THEN result
    ELSE IF SkipRelease(Head(releases), constraint, include_yanked)
    THEN MatchLoop(Tail(releases), constraint, max_versions, include_yanked, result)
    ELSE LET appended == Append(result, Head(releases))
         IN IF CapReached(max_versions, Len(appended)) THEN appended
            ELSE MatchLoop(Tail(releases), constraint, max_versions,
                           include_yanked, appended)

get_matching_versions_async(releases, constraint, max_versions, include_yanked) ==
    MatchLoop(releases, constraint, max_versions, include_yanked, <<>>)

\* a call of both functions on the same package and arguments
VerInit ==
    /\ mvReleases \in ReleaseLists
    /\ mvConstraint \in {0, 2}
    /\ mvMax \in {AbsentInt} \cup (0..MaxCap)
    /\ mvIncludeYanked \in BOOLEAN
    /\ mvPos = 1
    /\ mvCount = 0
    /\ mvYielded = <<>>
    /\ mvAsyncResult = <<>>
    /\ mvPc = "loop"
    /\ ProgramIdle
    /\ FunctionsIdle
    /\ CmpIdle
    /\ ConvIdle
    /\ RtIdle

verFrame == <<programVars, valVars, oTasks, markerVars, cmpVars, convVars, rtVars>>

\* get_matching_versions: the generator passes over a release
VerSkip ==
    /\ mvPc = "loop"
    /\ mvPos <= Len(mvReleases)
    /\ SkipRelease(mvReleases[mvPos], mvConstraint, mvIncludeYanked)
    /\ mvPos' = mvPos + 1
    /\ UNCHANGED <<mvReleases, mvConstraint, mvMax, mvIncludeYanked, mvCount,
                   mvYielded, mvAsyncResult, mvPc>>
    /\ UNCHANGED verFrame

\* get_matching_versions: yield release; count += 1; return when the cap is
\* reached
VerYield ==
    /\ mvPc = "loop"
    /\ mvPos <= Len(mvReleases)
    /\ ~SkipRelease(mvReleases[mvPos], mvConstraint, mvIncludeYanked)
    /\ mvYielded' = Append(mvYielded, mvReleases[mvPos])
    /\ mvCount' = mvCount + 1
    /\ mvPos' = mvPos + 1
    /\ mvPc' = IF CapReached(mvMax, mvCount + 1) THEN "returned" ELSE "loop"
    /\ UNCHANGED <<mvReleases, mvConstraint, mvMax, mvIncludeYanked, mvAsyncResult>>
    /\ UNCHANGED verFrame

\* get_matching_versions: the releases are exhausted
VerExhausted ==
    /\ mvPc = "loop"
    /\ mvPos > Len(mvReleases)
    /\ mvPc' = "returned"
    /\ UNCHANGED <<mvReleases, mvConstraint, mvMax, mvIncludeYanked, mvPos,
                   mvCount, mvYielded, mvAsyncResult>>
    /\ UNCHANGED verFrame

\* get_matching_versions_async with the same arguments
VerAsync ==
    /\ mvPc = "returned"
    /\ mvAsyncResult' = get_matching_versions_async(mvReleases, mvConstraint,
                                                    mvMax, mvIncludeYanked)
    /\ mvPc' = "done"
    /\ UNCHANGED <<mvReleases, mvConstraint, mvMax, mvIncludeYanked, mvPos,
                   mvCount, mvYielded>>
    /\ UNCHANGED verFrame

NextVersions ==
    \/ VerSkip
    \/ VerYield
    \/ VerExhausted
    \/ VerAsync

SpecVersions == VerInit /\ [][NextVersions]_vars

(***************************************************************************)
(* state.py: a WheelState through to_dict / from_dict and save / load      *)
(***************************************************************************)

\* values of the optional string fields and of the list-valued fields
OptStrings(s) == {Null, s}

OptLists == {NoneVal, Some(<<>>), Some(<<"requests>=2.0">>)}

WheelStates ==
    {[status |-> st, sha256 |-> sha, upload_time |-> Null,
      converted_at |-> at, conda_file |-> Null, subdir |-> sd,
      dependencies |-> deps, original_requirements |-> orig,
      error |-> err, retry_count |-> rc] :
        st \in Statuses, sha \in OptStrings("sha256-digest"),
        at \in OptStrings("2026-01-01T00:00:00+00:00"),
        sd \in OptStrings("noarch"),
        deps \in {NoneVal, Some(<<>>), Some(<<"requests">>)},
        orig \in OptLists, err \in OptStrings("E_exc"),
        rc \in 0..RetryCeiling}

\* a WheelState in memory, about to be serialised
RtInit ==
    /\ rtState \in WheelStates
    /\ rtDict = <<>>
    /\ rtBack = <<>>
    /\ rtFile = NoFile
    /\ rtLoaded = <<>>
    /\ rtPc = "state"
    /\ ProgramIdle
    /\ FunctionsIdle
    /\ CmpIdle
    /\ ConvIdle
    /\ VerIdle

rtFrame == <<programVars, valVars, oTasks, markerVars, cmpVars, convVars, verVars>>

\* s.to_dict()
RtToDict ==
    /\ rtPc = "state"
    /\ rtDict' = to_dict(rtState)
    /\ rtPc' = "dict"
    /\ UNCHANGED <<rtState, rtBack, rtFile, rtLoaded>>
    /\ UNCHANGED rtFrame

\* WheelState.from_dict(...)
RtFromDict ==
    /\ rtPc = "dict"
    /\ rtBack' = from_dict(rtDict)
    /\ rtPc' = "back"
    /\ UNCHANGED <<rtState, rtDict, rtFile, rtLoaded>>
    /\ UNCHANGED rtFrame

\* save_state(state_dir, name, {"a1": s})
RtSave ==
    /\ rtPc = "back"
    /\ rtFile' = Doc(DumpData(SetItem(EmptyMap, "a1", rtState)))
    /\ rtPc' = "saved"
    /\ UNCHANGED <<rtState, rtDict, rtBack, rtLoaded>>
    /\ UNCHANGED rtFrame

\* load_state(state_dir, name)
RtLoad ==
    /\ rtPc = "saved"
    /\ rtLoaded' = load_state(rtFile)
    /\ rtPc' = "loaded"
    /\ UNCHANGED <<rtState, rtDict, rtBack, rtFile>>
    /\ UNCHANGED rtFrame

NextRoundTrip ==
    \/ RtToDict
    \/ RtFromDict
    \/ RtSave
    \/ RtLoad

SpecRoundTrip == RtInit /\ [][NextRoundTrip]_vars

(***************************************************************************)
(* Claims                                                                  *)
(***************************************************************************)

SavePcs == {"save_open", "save_dump", "save_replace"}

SyncCmds == {"sync", "sync_package", "sync_async"}

Record(w) == StateFile(w).doc[w]

\* C1: in a non-dry-run sync, once an error raised for a wheel has been
\* dealt with, the wheel's persisted retry counter is the previously stored
\* value plus one and its persisted status is `failed`, or `skipped` when
\* the counter has reached 3 (no process having been stopped).
C1_FailureRecorded ==
    (crashes = 0 /\ errLog.w # "none" /\ pc \notin SavePcs) =>
        /\ Retry(errLog.w) = errLog.stored + 1
        /\ Status(errLog.w) = IF errLog.stored + 1 >= 3 THEN "skipped" ELSE "failed"

C2_IsPending(w) ==
    LET f == fs[StatePath("pa")] IN
      /\ StatusIn(f, w) # "converted"
      /\ StatusIn(f, w) # "skipped"
      /\ ~(StatusIn(f, w) = "failed" /\ RetryIn(f, w) >= 3)

\* C2: get_pending_wheels returns, in declaration order, exactly the
\* declared wheels whose state is not `converted`, not `skipped` and not
\* (`failed` with retry counter >= 3); a wheel without a state entry is
\* returned.
C2_PendingExact ==
    pc = "applied" => pending = SelectSeq(declFile["pa"].wheels, C2_IsPending)

\* a `failed` wheel at the ceiling is left out while a `failed` wheel below
\* it and a wheel without a state entry are returned
C2_Witness ==
    /\ pc = "applied"
    /\ declFile["pa"].wheels = <<"a2", "a1">>
    /\ pending = <<"a1">>
    /\ StatusIn(fs[StatePath("pa")], "a2") = "failed"
    /\ RetryIn(fs[StatePath("pa")], "a2") = 3
    /\ StatusIn(fs[StatePath("pa")], "a1") = "absent"

\* C3: once a wheel's persisted status is `converted` or `skipped`, no step
\* of a sync attempts the wheel or changes its state record.
C3_Terminal ==
    [][\A w \in Wheels :
          (Status(w) \in {"converted", "skipped"}
           /\ (cmd \in SyncCmds \/ cmd' \in SyncCmds)) =>
             /\ HasRecord(w)'
             /\ Record(w)' = Record(w)
             /\ attempts'[w] = attempts[w]
             /\ (w \in attempted' => w \in attempted)
             /\ tasks'[w] = NoTask]_vars

\* a sequential sync of everything (a dry run) visited a1 and then loaded
\* pb, whose only wheel b1 is `skipped` and was passed over
C3_Witness ==
    /\ cmd = "sync"
    /\ dryRun
    /\ Status("b1") = "skipped"
    /\ curPkg = "pb"
    /\ pending = <<>>
    /\ "b1" \notin attempted
    /\ "a1" \in attempted
    /\ crashes = 0

\* C4: when a sync returns or dies with a wheel's error, every wheel that
\* was pending at its start has been attempted (no process having been
\* stopped).
C4_AllPendingAttempted ==
    (crashes = 0 /\ endCause \in {"done", "wheel_error"}) => unattempted = {}

\* C5: a persisted record with status `converted`, reached by `add` and
\* syncs that were never stopped, has a conda filename, a conversion
\* timestamp, a content hash and a dependency summary.
C5_ConvertedComplete ==
    \A w \in Wheels :
       (crashes = 0 /\ Status(w) = "converted") =>
          /\ Record(w).conda_file # Absent
          /\ Record(w).converted_at # Absent
          /\ Record(w).sha256 # Absent
          /\ Record(w).dependencies.tag # "absent"

\* C6: a wheel whose persisted status is `skipped` has retry counter >= 3,
\* and the status it held before the step that made it `skipped` was
\* `failed`.
C6_SkippedFromFailed ==
    [][\A w \in Wheels :
          Status(w)' = "skipped" =>
             /\ Retry(w)' >= 3
             /\ Status(w) \in {"failed", "skipped"}]_vars

C6_Witness ==
    \E w \in Wheels : Status(w) = "skipped" /\ Retry(w) = 3 /\ cmd = "idle"

\* C7 as stated: a `skipped` wheel has been persisted as `failed` with
\* retry counter 3.
C7_ThroughFailed3 ==
    \A w \in Wheels : Status(w) = "skipped" => 3 \in seenFailed[w]

\* C7 amended: a `skipped` wheel has been persisted as `failed` with retry
\* counter 2 (and never with 3: the failure that takes the counter to 3
\* writes `skipped`).
C7_ThroughFailed2 ==
    \A w \in Wheels :
       Status(w) = "skipped" => (2 \in seenFailed[w] /\ 3 \notin seenFailed[w])

C7_Witness ==
    \E w \in Wheels : Status(w) = "skipped" /\ seenFailed[w] = {1, 2}

\* C8: as long as no attempt on a wheel succeeded (and no process was
\* stopped), the wheel has been attempted at most 3 times, it is `skipped`
\* exactly when it has been attempted 3 times, and a sync that is starting
\* does not find it pending then.
C8_ThreeAttempts ==
    \A w \in Wheels :
       (crashes = 0 /\ Status(w) # "converted") =>
          /\ attempts[w] <= 3
          /\ (Status(w) = "skipped" => attempts[w] = 3)
          /\ (cmd = "idle" /\ attempts[w] = 3 =>
                 Status(w) = "skipped" /\ w \notin PendingOnDisk(PkgOf(w)))

\* C9: no step taken inside save_state, a stop of the process included,
\* changes the visible state file, except the rename, which makes it the
\* complete new document.
C9_SaveAtomic ==
    [][(pc \in SavePcs) =>
         (\/ fs'[StatePath(savePkg)] = fs[StatePath(savePkg)]
          \/ /\ pc = "save_replace"
             /\ endCause' # "crash"
             /\ fs'[StatePath(savePkg)] = Doc(DumpData(mem[savePkg])))]_vars

\* a process was stopped inside save_state: its temp file is left behind
\* and the visible file still holds the old document, here one in which
\* the wheel of the interrupted save is still pending
C9_Witness ==
    /\ endCause = "crash"
    /\ fs[TempPath("pb")].kind = "stale"
    /\ Status("b1") = "pending"
    /\ attempts["b1"] = 1

\* C10: every step that changes a file `<name>.json` of the state directory
\* is the rename of its complete `.tmp` sibling over it.
C10_TmpThenRename ==
    [][\A p \in Packages :
          fs'[StatePath(p)] # fs[StatePath(p)] =>
             /\ fs[TempPath(p)].kind = "doc"
             /\ fs'[StatePath(p)] = fs[TempPath(p)]
             /\ fs'[TempPath(p)] = NoFile]_vars

\* C11: a sync that stops on a corrupt state file has attempted every wheel
\* that was pending in the other declared packages, and no step of a sync
\* changes a corrupt state file.
C11_CorruptHaltsOnePackage ==
    [][/\ (endCause' = "state_corrupt" => unattempted' = {})
       /\ \A p \in Packages :
            (fs[StatePath(p)].kind = "trunc" /\ cmd \in SyncCmds) =>
               fs'[StatePath(p)] = fs[StatePath(p)]]_vars

\* C12: whenever a wheel's persisted status is `converted`, the archive its
\* conversion wrote is complete: `converted` is saved only after the
\* download and the conversion have ended successfully.
C12_ConvertedAfterConversion ==
    \A w \in Wheels : Status(w) = "converted" => chan[OutputPath(w)] = "complete"

\* a2 is `converted` with its archive complete while a failed conversion of
\* a1 left a partly written archive and the status `failed`
C12_Witness ==
    /\ Status("a2") = "converted"
    /\ chan[OutputPath("a2")] = "complete"
    /\ Status("a1") = "failed"
    /\ chan[OutputPath("a1")] = "partial"

\* C13: for every wheel whose persisted status is `converted`, the file
\* `<channel>/<subdir>/<conda_file>` named by the `subdir` and `conda_file`
\* of its record exists and is the complete archive.
C13_ChannelLayout ==
    \A w \in Wheels :
       Status(w) = "converted" =>
          /\ Record(w).subdir \in Subdirs
          /\ <<Record(w).subdir, Record(w).conda_file>> \in ChanPaths
          /\ chan[<<Record(w).subdir, Record(w).conda_file>>] = "complete"

\* C14: no wheel of a package whose declaration carries a `conda_forge`
\* name is ever attempted by a (non-dry-run) sync, and no archive is
\* written for it (no process having been stopped).
C14_MappedDeferred ==
    \A w \in Wheels :
       (crashes = 0 /\ declFile[PkgOf(w)].conda_forge # Null) =>
          /\ attempts[w] = 0
          /\ chan[OutputPath(w)] = "none"

\* C15: in sync_all_async at most 10 wheel tasks are past the semaphore at
\* any instant, and a task gets past it only while fewer than 10 are.
C15_AtMostTenTasks ==
    [][/\ tRunning' <= 10
       /\ (tRunning' > tRunning => tRunning < 10)]_vars

\* ten tasks are past the semaphore while more are waiting for it
C15_Witness == tRunning = 10 /\ tWaiting = 2

\* C16 as stated: the dispatch set of the closure fetcher (active_tasks)
\* never holds more than 50 entries.
C16_DispatchSetAtMost50 == tWaiting + tRunning <= 50

\* C16 amended: at most 50 fetches are past the semaphore at any instant.
C16_FetchesAtMost50 == tRunning <= 50

\* 50 fetches are past the semaphore and the dispatch set holds more
C16_Witness == tRunning = 50 /\ tWaiting >= 1


Names(bucket) == {bucket[i].name : i \in DOMAIN bucket}

\* C17: during one crawl each normalized package name is dispatched for
\* fetching at most once, whichever case/underscore variant is enqueued and
\* however often; later enqueues of a visited name are dropped.
C17_DispatchedOnce == \A n \in Nodes : dispatched[n] <= 1

\* the root was passed as "A_b" and dispatched by the initial start_fetch;
\* its entry in pending is about to be dropped by the name "a-b"
C17_Witness ==
    /\ crawlPc = "dispatch"
    /\ queue = <<<<"A", "_", "b">>>>
    /\ NameAB \in seen
    /\ dispatched[NameAB] = 1

\* C18: when the crawl has ended, every dispatched node is in exactly one of
\* the output bucket (Ok or mapping fallback) and the error bucket (needs
\* operator input); none is missing from both.  Violated: a fetch that raises
\* leaves its node in neither.
C18_ExactlyOneOutcome ==
    crawlPc = "done" =>
        \A n \in Nodes :
            dispatched[n] >= 1 =>
                (n \in Names(packages_to_add)) # (n \in Names(needs_input))

\* C19: when the crawl has ended, every required or optional dependency of
\* every Ok node is in the visited set.
C19_ClosureComplete ==
    crawlPc = "done" =>
        \A i \in DOMAIN packages_to_add :
            ~packages_to_add[i].error =>
                packages_to_add[i].required_deps \cup packages_to_add[i].optional_deps
                    \subseteq seen

\* an Ok node with an optional dependency that was dispatched and a required
\* one that was skipped because it is already declared
C19_Witness ==
    /\ crawlPc = "done"
    /\ ~force
    /\ \E i \in DOMAIN packages_to_add :
          /\ ~packages_to_add[i].error
          /\ packages_to_add[i].optional_deps = {NameD}
          /\ packages_to_add[i].required_deps = {NameC}
    /\ dispatched[NameD] = 1
    /\ NameC \in existing
    /\ dispatched[NameC] = 0

\* C20: the crawl eventually returns, and then the pending queue and the set
\* of active tasks are both empty.
C20_Terminates == <>[](crawlPc = "done" /\ queue = <<>> /\ DOMAIN active = {})

\* the crawl returned from a graph with a cycle a-b -> d -> a-b
C20_Witness ==
    /\ crawlPc = "done"
    /\ queue = <<>>
    /\ DOMAIN active = {}
    /\ \E i, j \in DOMAIN packages_to_add :
          /\ packages_to_add[i].name = NameAB
          /\ packages_to_add[j].name = NameD
          /\ NameD \in packages_to_add[i].required_deps
          /\ NameAB \in packages_to_add[j].required_deps


\* C21: `add` writes nothing before the crawl and every prompt are over; an
\* abort at a prompt, a non-interactive run with a node that needs input and
\* a dry run end the verb from that phase with every declaration and state
\* file as it was, the first two with exit code 1.
C21_AllOrNothing ==
    [][(cmd = "add") =>
         (/\ (pc = "add_resolve" \/ dryRun) => durable' = durable
          /\ (pc = "add_resolve" /\ pc' = "add_write") =>
                (addNeeds = <<>> /\ ~dryRun)
          /\ (cmd' = "idle" /\ (dryRun \/ addNeeds # <<>>)) =>
                (pc = "add_resolve"
                 /\ endCause' \in {"add_abort", "add_needs_input",
                                   "add_dry_run", "add_nothing"})
          /\ (nonInteractive /\ addNeeds # <<>>) =>
                (cmd' = "idle" /\ exitCode' = "1")
          /\ (endCause' = "add_abort") => exitCode' = "1")]_vars

\* the operator aborted an `add --force`: pb is still declared as it was and
\* its wheel b1 still `converted`, pa is not declared
C21_Witness ==
    /\ endCause = "add_abort"
    /\ exitCode = "1"
    /\ declFile["pb"] = DeclFor("pb", "wheels_cf")
    /\ Status("b1") = "converted"
    /\ ~declFile["pa"].exists
    /\ fs[StatePath("pa")] = NoFile


\* C22: when the loop takes a fetch that ended with a PyPI error or without
\* pure wheels and the mapping service knows the name, the node goes to the
\* output bucket and not to the prompts, nothing is appended to the pending
\* queue, and what is written for it is a declaration with the conda_forge
\* line only, no wheels list and no state file.
C22_MappingFallback ==
    [][\A pkg \in RawNames :
         (/\ crawlPc = "process"
          /\ pkg \in DOMAIN active
          /\ pkg \notin DOMAIN active'
          /\ active[pkg].out.kind = "error"
          /\ Mapping(Canon(pkg)) # Null) =>
            (/\ needs_input' = needs_input
             /\ queue' = queue
             /\ Len(packages_to_add') = Len(packages_to_add) + 1
             /\ SubSeq(packages_to_add', 1, Len(packages_to_add)) = packages_to_add
             /\ packages_to_add'[Len(packages_to_add')].name = Canon(pkg)
             /\ WrittenDecl(packages_to_add'[Len(packages_to_add')]) =
                   [wheels |-> FALSE, conda_forge |-> Mapping(Canon(pkg))]
             /\ ~WritesStateFile(packages_to_add'[Len(packages_to_add')]))]_vars

\* a-b was fetched with wheels and requires c; the fetch of c ended with an
\* error, the mapping service knows c, and the crawl ended with nobody to ask
C22_Witness ==
    /\ crawlPc = "done"
    /\ needs_input = <<>>
    /\ Len(packages_to_add) = 2
    /\ packages_to_add[1].name = NameAB
    /\ NameC \in packages_to_add[1].required_deps
    /\ packages_to_add[2].name = NameC
    /\ packages_to_add[2].error
    /\ packages_to_add[2].conda_forge = "conda-c"


\* a sync verb ends with an exit code (it returns, or dies with an exception)
SyncEnds ==
    /\ cmd \in SyncCmds \/ (cmd = "idle" /\ endCause' = "state_corrupt")
    /\ cmd' = "idle"
    /\ exitCode' # "none"

C24_DryRunReportsAllConverted ==
    [][(cmd \in SyncCmds /\ dryRun /\ crashes = 0) =>
         (/\ durable' = durable
          /\ (cmd' = "idle" /\ endCause' = "done") =>
                (convertedRun' = runPending))]_vars

\* C24, amended: no step of a dry-run sync changes a state file, a retry
\* counter or the channel directory; sync_package and sync_all report every
\* pending wheel as converted; sync_all_async looks every pending wheel up
\* on the index and reports it as converted or, when the lookup fails, as
\* failed.
C24_DryRunChangesNothing ==
    [][(cmd \in SyncCmds /\ dryRun) =>
         (/\ durable' = durable
          /\ attempts' = attempts
          /\ (cmd' = "idle" /\ endCause' = "done") =>
                (/\ convertedRun' \cup failedRun' = runPending
                 /\ convertedRun' \cap failedRun' = {}
                 /\ (cmd # "sync_async") => (convertedRun' = runPending)))]_vars

\* a dry run of sync_all_async returned: it reported a2 as converted and a1
\* as failed; both are still pending and nothing was converted
C24_Witness ==
    /\ cmd = "idle"
    /\ endCause = "done"
    /\ convertedRun = {"a2"}
    /\ failedRun = {"a1"}
    /\ Status("a1") = "pending"
    /\ Status("a2") = "pending"
    /\ \A w \in Wheels : attempts[w] = 0
    /\ \A x \in ChanPaths : chan[x] = "none"

\* C25: validation reports, for a package with a converted wheel, exactly
\* the names of the first converted wheel's requirements whose canonical
\* form is not declared: a requirement whose canonical name is declared is
\* never reported, also when sync recorded it from a conditional dependency
\* (a reported name counts for the requirement it was recorded from, however
\* the report spells it)
C25_ReportsExactlyUndeclared ==
    vPc = "validated" /\ FirstConverted(vState) # 0 =>
        LET reqs == vWheels[FirstConverted(vState)].reqs IN
        {Normalize(Before(n, ";")) : n \in SeqSet(vMissing)} =
            {Normalize(reqs[i].name) : i \in {k \in DOMAIN reqs :
                Normalize(reqs[k].name) \notin vPackages}}

\* C26: in a non-dry-run asynchronous sync, once the completion loop has
\* handled a wheel and its save has returned, the state file of its package
\* holds the outcome of every wheel completed so far in the run, whatever
\* the order of completion; and the state files are written by nothing but
\* the save the main coroutine is in, to the files of one package at a time
C26_NoLostUpdate ==
    [][(cmd' = "sync_async" /\ ~dryRun')
        => /\ (pc' = "wait") =>
                /\ \A w \in convertedRun' :
                      StatusIn(fs'[StatePath(PkgOf(w))], w) = "converted"
                /\ \A w \in failedRun' :
                      StatusIn(fs'[StatePath(PkgOf(w))], w) \in {"failed", "skipped"}
           /\ (fs' # fs) =>
                /\ pc \in SavePcs
                /\ \A x \in Paths :
                      fs'[x] # fs[x] => x \in {StatePath(savePkg), TempPath(savePkg)}]_vars

\* both wheels of pa have completed in one run, one converted, one failed
C26_Witness ==
    /\ cmd = "sync_async"
    /\ pc = "wait"
    /\ ~dryRun
    /\ "a1" \in convertedRun
    /\ "a2" \in failedRun
    /\ Status("a1") = "converted"
    /\ Status("a2") = "failed"

\* C27: no two wheel tasks in flight write the same output path: distinct
\* declared wheel filenames, two platform wheels of one package version
\* included, convert to distinct .conda files
C27_DistinctOutputPaths ==
    \A f \in InFlight, g \in InFlight : f # g => conda_path(f) # conda_path(g)

Recorded(f, w) ==
    \/ w \in convertedRun /\ StatusIn(f, w) = "converted"
    \/ w \in failedRun /\ StatusIn(f, w) \in {"failed", "skipped"}

\* C28: a non-dry-run asynchronous sync terminates; when it returns, every
\* wheel that was pending at its start has the status converted, failed or
\* skipped on disk, recorded by this run; and while it runs no task has
\* left the completion loop without its outcome written
C28_TerminatesRecorded ==
    /\ (cmd = "sync_async") ~> (cmd = "idle" /\ endCause = "done")
    /\ [](cmd = "sync_async" /\ pc = "wait" =>
            \A w \in runPending :
                tasks[w] = NoTask => Recorded(StateFile(w), w))
    /\ [][(cmd = "sync_async" /\ cmd' = "idle") =>
            (\A w \in runPending : Recorded(fs'[StatePath(PkgOf(w))], w))]_vars

\* the run has returned: a1 failed for the third time and is skipped, a2 is
\* converted, b1 failed
C28_Witness ==
    /\ cmd = "idle"
    /\ endCause = "done"
    /\ exitCode = "1"
    /\ Status("a1") = "skipped"
    /\ Status("a2") = "converted"
    /\ Status("b1") = "failed"

\* the comparisons of a marker list, without its operators
TermsOf(tree) == LET IsTerm(item) == item.k # "op" IN SelectSeq(tree, IsTerm)

IsCPythonAtom(item) ==
    /\ item.k = "atom"
    /\ _convert_marker_atom(item.variable, item.op, item.value)
         = Text("__CPYTHON_ALWAYS")

\* a comparison that translates to a selector of its own
IsPlainAtom(item) ==
    /\ item.k = "atom"
    /\ item.variable \in {"python_version", "sys_platform", "platform_system"}

\* the marker list of the terms joined by the operators ops
Interleave(terms, ops) ==
    [i \in 1..(2 * Len(terms) - 1) |->
        IF i % 2 = 1 THEN terms[(i + 1) \div 2] ELSE BoolOp(ops[i \div 2])]

\* C29: for a marker in which a CPython comparison is joined by and / or
\* with other translatable comparisons, the translation is exactly that of
\* the other comparisons joined by boolean operators: no leading, trailing
\* or doubled operator is left over
C29_IncludeAlwaysErased ==
    LET others == SelectSeq(TermsOf(mTree), IsPlainAtom) IN
    (/\ mPc = "converted"
     /\ \E i \in DOMAIN mTree : IsCPythonAtom(mTree[i])
     /\ \A i \in DOMAIN mTree :
           mTree[i].k = "op" \/ IsCPythonAtom(mTree[i]) \/ IsPlainAtom(mTree[i])
     /\ others # <<>>)
    => \E ops \in [1..(Len(others) - 1) -> BoolOps] :
          mResult = _convert_marker_tree(Interleave(others, ops))

IsVersionAtom(item) == item.k = "atom" /\ item.variable = "platform_version"

IsFlagAtom(item) ==
    /\ item.k = "atom"
    /\ item.variable \in {"sys_platform", "platform_system"}
    /\ item.op = "=="

\* C30: a marker list of translatable comparisons with one platform_version
\* comparison is a conversion error unless exactly one platform flag is in
\* the list and only `and` stands between the flag and platform_version
C30_FusedOnlyUnderAnd ==
    LET versions == {i \in DOMAIN mTree : IsVersionAtom(mTree[i])}
        flags == {i \in DOMAIN mTree : IsFlagAtom(mTree[i])}
        Between(i, j) == {k \in DOMAIN mTree : (i < k /\ k < j) \/ (j < k /\ k < i)}
    IN  (/\ mPc = "converted"
         /\ Cardinality(versions) = 1
         /\ \A i \in DOMAIN mTree :
               mTree[i].k = "op" \/ IsVersionAtom(mTree[i]) \/ IsPlainAtom(mTree[i])
         /\ \/ Cardinality(flags) # 1
            \/ \E v \in versions, f \in flags :
                  \E k \in Between(v, f) : mTree[k] = BoolOp("or"))
        => mResult.raised

RECURSIVE AtomsOf(_)
\* the comparisons of a marker list, those inside groups included
AtomsOf(tree) ==
    IF tree = <<>> THEN {}
    ELSE LET item == Head(tree) IN
         (IF item.k = "atom" THEN {item}
          ELSE IF item.k = "sub" THEN AtomsOf(item.items) ELSE {})
         \cup AtomsOf(Tail(tree))

IsDropAtom(item) ==
    _convert_marker_atom(item.variable, item.op, item.value) = Text("__SKIP_DEP")

RECURSIVE WithoutDrop(_)
\* the marker list with every dropping comparison replaced by one that has
\* a selector of its own
WithoutDrop(tree) ==
    [i \in DOMAIN tree |->
        IF tree[i].k = "sub" THEN Sub(WithoutDrop(tree[i].items))
        ELSE IF tree[i].k = "atom" /\ IsDropAtom(tree[i])
        THEN Atom("python_version", "<", "3.11")
        ELSE tree[i]]

C32_FailureKeepsAudit ==
    [][\A w \in Wheels :
         LET after == fs'[StatePath(PkgOf(w))] IN
         (/\ HasRecord(w)
          /\ HasRecordIn(after, w)
          /\ after.doc[w].status \in {"failed", "skipped"}
          /\ after.doc[w] # Record(w))
         => (/\ after.doc[w].sha256 = Record(w).sha256
             /\ after.doc[w].dependencies = Record(w).dependencies
             /\ after.doc[w].original_requirements
                  = Record(w).original_requirements)]_vars

\* C33: the dependency summary sync records for a converted wheel is, in
\* order, the bare canonical name of each of its requirements: version
\* specifiers and `; if` conditions are removed
C33_BareNames ==
    vPc \in {"synced", "validated"} =>
        \A i \in DOMAIN vState :
            vState[i].status = "converted" =>
                vState[i].required =
                    [k \in DOMAIN vWheels[i].reqs |-> Normalize(vWheels[i].reqs[k].name)]

\* C34: when sync_all and sync_all_async are started from the same
\* declarations and state files and every wheel's attempt has the same
\* outcome in both, the concurrent run ends with the status and the retry
\* counter the sequential run left for every wheel, whatever order the
\* concurrent tasks complete in
C34_SamePersistedState ==
    (cPhase = "async" /\ cmd = "idle" /\ endCause = "done")
    => \A w \in Wheels : <<Status(w), Retry(w)>> = cSeqFinal[w]


\* what a tar archive holds, entry by entry: name, digest and length of the
\* bytes written
TarMetadata(tar) ==
    [i \in DOMAIN tar |->
       FileMetadata(tar[i].name, hexdigest(tar[i].bytes), Len(tar[i].bytes))]

\* the entries of the wheel the conversion skips: directories and INSTALLER
SkippedEntries ==
    {i \in DOMAIN cvEntries :
        EndsWithSlash(cvEntries[i].file_name) \/ IsInstaller(cvEntries[i].file_name)}

\* C35: at every point of a conversion the writer's metadata list describes
\* the entries written to the pkg tar, one for one; in a produced package
\* paths.json lists exactly the files of the pkg archive with the digest and
\* size of their bytes, the synthesized INSTALLER is among them and no
\* skipped entry of the wheel is
C35_PathsMatchPkg ==
    /\ pkg_writer._files = TarMetadata(pkg_writer._tar)
    /\ cvOut.kind = "new" =>
         /\ {<<cvOut.paths[i]._path, cvOut.paths[i].sha256,
               cvOut.paths[i].size_in_bytes>> : i \in DOMAIN cvOut.paths}
            = {<<cvOut.pkg[i].name, hexdigest(cvOut.pkg[i].bytes),
                 Len(cvOut.pkg[i].bytes)>> : i \in DOMAIN cvOut.pkg}
         /\ \E i \in DOMAIN cvOut.pkg :
               /\ cvOut.pkg[i].name =
                    DestPath(PrefixFile(dist_info_prefix, "INSTALLER"))
               /\ cvOut.pkg[i].bytes = CondaBytes
         /\ \A k \in SkippedEntries : \A i \in DOMAIN cvOut.pkg :
               ~(/\ cvOut.pkg[i].name = DestPath(cvEntries[k].file_name)
                 /\ cvOut.pkg[i].bytes = cvEntries[k].content)

\* a package was produced from a wheel with a streamed module and a skipped
\* entry
C35_Witness ==
    /\ cvOut.kind = "new"
    /\ SkippedEntries # {}
    /\ \E i \in DOMAIN cvEntries :
          /\ cvEntries[i].file_name = <<"pkg", Slash, "__init__.py">>
          /\ cvEntries[i].file_size # AbsentInt

\* the top-level directory ending in .dist-info of a file name, if it has one
TopDistInfo(name) ==
    IF Len(name) >= 3 /\ name[2] = ".dist-info" /\ name[3] = Slash
    THEN <<name[1], name[2]>>
    ELSE NoPrefix

\* the entries of the pkg archive named INSTALLER, directly under
\* site-packages/<prefix>/
InstallersUnder(tar, prefix) ==
    {i \in DOMAIN tar : tar[i].name = DestPath(PrefixFile(prefix, "INSTALLER"))}

\* C36: the pkg archive of a produced package holds exactly one INSTALLER
\* under the dist-info directory of the wheel, and its bytes are conda\n,
\* whether or not the wheel had an INSTALLER of its own and wherever it was
C36_OneCondaInstaller ==
    cvOut.kind = "new" =>
        \A k \in DOMAIN cvEntries :
            TopDistInfo(cvEntries[k].file_name) # NoPrefix =>
                LET under == InstallersUnder(cvOut.pkg,
                                             TopDistInfo(cvEntries[k].file_name))
                IN /\ Cardinality(under) = 1
                   /\ \A i \in under : cvOut.pkg[i].bytes = CondaBytes

\* a package was produced from a wheel whose first entry is its own INSTALLER
C36_Witness ==
    /\ cvOut.kind = "new"
    /\ cvEntries[1].file_name = DistInfoName("INSTALLER")

\* the non-yanked releases within the constraint, newest first
MatchingReleases(releases, constraint) ==
    LET Matches(r) == ~r.yanked /\ InSpecifier(r.version, constraint)
    IN SelectSeq(releases, Matches)

\* the first n elements of a sequence, all of it when it is shorter
FirstN(seq, n) == SubSeq(seq, 1, IF n < Len(seq) THEN n ELSE Len(seq))

\* C37: called with max_versions N >= 0 and without include_yanked, both
\* get_matching_versions and get_matching_versions_async return the N newest
\* non-yanked releases that match the constraint, all of them when fewer
\* than N match, and so never more than N
C37_CapsResult ==
    (mvPc = "done" /\ mvMax # AbsentInt /\ ~mvIncludeYanked)
    => LET expected == FirstN(MatchingReleases(mvReleases, mvConstraint), mvMax)
       IN mvYielded = expected /\ mvAsyncResult = expected

\* C38: WheelState.from_dict(s.to_dict()) equals s in every field, and
\* load_state after save_state returns the mapping that was saved
C38_RoundTrip ==
    /\ rtPc \in {"back", "saved", "loaded"} => rtBack = rtState
    /\ rtPc = "loaded" => rtLoaded = SetItem(EmptyMap, "a1", rtState)

\* the names whose declaration and state files cmd_add can write after the
\* crawl: _write_package_files for packages_to_add and for the entries of
\* needs_input the operator maps, _write_empty_package for the others
AddWrites ==
    {packages_to_add[i].name : i \in DOMAIN packages_to_add}
    \cup {needs_input[i].name : i \in DOMAIN needs_input}

\* C39: without --force a package that was declared when `add` started is
\* never fetched and never among the packages whose files `add` writes,
\* whether it is the root or a dependency met during the crawl
C39_ExistingUntouched ==
    ~force =>
        \A n \in existing :
            /\ dispatched[n] = 0
            /\ \A pkg \in DOMAIN active : Normalize(pkg) # n
            /\ n \notin AddWrites

\* a crawl without --force has ended, it met the declared package c as a
\* dependency and found another package to add
C39_Witness ==
    /\ ~force
    /\ crawlPc = "done"
    /\ existing = {NameC}
    /\ NameC \in seen
    /\ packages_to_add # <<>>

\* the ways convert_wheel raises that the claim names
ConvErrors == {"no_dist_info", "missing_metadata", "marker"}

\* C40: when convert_wheel raises because no dist-info was found, METADATA
\* or WHEEL is missing or a dependency marker cannot be converted, no .conda
\* file has been written to the output directory (an older file is as it
\* was), and the scratch temp file is gone on every way out of
\* convert_wheel, the successful return included
C40_FailureLeavesNothing ==
    /\ cvPc \in ConvErrors => cvOut \in {NoConda, OldConda} /\ pkg_tmp = "deleted"
    /\ cvPc = "returned" => pkg_tmp = "deleted"

\* a conversion into a directory that holds an older file has failed on a
\* marker, after the pkg archive was complete
C40_Witness ==
    /\ cvPc = "marker"
    /\ cvOut = OldConda
    /\ pkg_writer._tar # <<>>
====
